---------------------------- MODULE Spec2Model ----------------------------
(***************************************************************************)
(* Model of the coordinate-geometry engine of                              *)
(* app/lib/core/inference.server.ts: bounding-box arithmetic, the two crop *)
(* planners and the resolution matcher.                                    *)
(*                                                                         *)
(* Numbers.  A JavaScript number is an IEEE-754 binary64 value, modelled   *)
(* as the record [sign, mant, exp]:                                        *)
(*   a finite number other than 0 is sign * mant * 2^exp with sign 1 or    *)
(*   -1, mant an odd natural below 2^53, written as the sequence of its    *)
(*   digits in base 2^15, the lowest first, and exp at least -1074;        *)
(*   +0 and -0 have mant <<>>, exp 0 and sign 1, -1;                       *)
(*   +Infinity, -Infinity and NaN have mant <<>>, exp 1 and sign 1, -1, 0. *)
(* Every +, -, * and / is computed exactly and then rounded to the nearest *)
(* value of 53 bits, a tie going to the even mantissa, as the code does;   *)
(* the special values follow IEEE-754 (x/0, Infinity*0, comparisons with   *)
(* NaN, Math.max/min and Math.round of NaN, the sign of a zero result),    *)
(* the limits of the exponent included: a result of 2^1024 or more is      *)
(* Infinity, a result below 2^-1022 is rounded to a multiple of 2^-1074    *)
(* (a subnormal number or 0).                                              *)
(***************************************************************************)
EXTENDS Integers, Sequences, FiniteSets, TLC

VARIABLES
    fn,                   \* name of the function last called ("none" at start)
    bbox,                 \* argument: bbox
    imageWidth,           \* argument: imageWidth (clip/shift/planners/matcher)
    imageHeight,          \* argument: imageHeight
    whAspectRatio,        \* argument: whAspectRatio
    zoom,                 \* argument: zoom
    supportedResolutions, \* argument: supportedResolutions
    outBox,               \* returned BBox
    outVec,               \* returned Vector2
    outRegion,            \* returned sharp.Region
    threw,                \* TRUE iff the call ended with an exception
    argEndBox,            \* argument: endBox (lerpBBox)
    argAlpha,             \* argument: alpha / boxAlpha
    argBoxSize,           \* arguments: boxWidth, boxHeight (getBBoxFromAlpha)
    argOriginalSize,      \* argument: originalSize (resizeBBox)
    argNewSize,           \* argument: newSize (resizeBBox)
    argBboxes,            \* argument: bboxes (getEnclosingBBox)
    outWindow,            \* the crop window of getRelativeCropRegion just
                          \* before its return statement rounds it
    argRegion,            \* argument: region (cropBBox)
    argFaces,             \* argument: faces (extractBiggestFace)
    outFace               \* returned face

\* the variables of the geometry engine
geometryVars ==
    <<fn, bbox, imageWidth, imageHeight, whAspectRatio, zoom,
      supportedResolutions, outBox, outVec, outRegion, threw,
      argEndBox, argAlpha, argBoxSize, argOriginalSize, argNewSize,
      argBboxes, outWindow, argRegion, argFaces, outFace>>

\* the arguments and the result of the functions on faces
faceVars == <<argRegion, argFaces, outFace>>

\* One mounted useCachedState hook (src/unnamed/part_004).
VARIABLES
    hookPhase,            \* "unmounted", "effects" (a render is committed and
                          \* its effects have not run yet) or "idle"
    items,                \* the items array of the last render
    compareFn,            \* the compareFn of the last render ("none" if absent)
    compareFnRef,         \* compareFnRef.current
    cachedItems,          \* the state cachedItems
    itemsChanged,         \* the last render got another items array than
                          \* the render before it (the first render counts)
    latestOf              \* history: per key, the item of the most recent
                          \* items array holding that key (key 0: never seen)

cacheVars == <<hookPhase, items, compareFn, compareFnRef, cachedItems,
               itemsChanged, latestOf>>

\* One paging loop over CreationPaginator (app/lib/model/creation.server.ts).
VARIABLES
    pagerPhase,           \* "new", "paging" (between two calls of run()),
                          \* "fetched" (run() has its rows and has not
                          \* processed them yet) or "done" (nextCursor null)
    creationTable,        \* the rows of the Creation table
    argUserId,            \* argument: userId
    argPageSize,          \* argument: pageSize
    argCursor,            \* argument: cursor of the next call (0 is null)
    pagerFetched,         \* the rows `await prepare()` gave run() (line 82)
    pages,                \* the `creations` of the results returned so far
    tableWrites           \* history: the calls of addCreation and of
                          \* deleteCreations since the loop began

pagerVars == <<pagerPhase, creationTable, argUserId, argPageSize, argCursor,
               pagerFetched, pages, tableWrites>>

\* One mounted useInfiniteScrolling hook and its fetcher
\* (app/lib/hooks/use-infinite-scrolling.ts).
VARIABLES
    scrollPhase,          \* "unmounted" or "mounted"
    initNextCursor,       \* argument: initNextCursor (0 is null)
    lastPage,             \* the server's last cursor: cursors are 1..lastPage
    nextCursorRef,        \* nextCursorRef.current (0 is null)
    isFetchingRef,        \* isFetchingRef.current
    scrollCreations,      \* the state `creations`
    fetcherData,          \* fetcher.data (seq 0 is undefined)
    dataEffectPending,    \* fetcher.data changed and the effect of lines
                          \* 113-119 has not run yet
    inFlight,             \* the submitted requests that have not finished
    submitted,            \* history: the cursors submitted, in order
    delivered             \* history: the responses delivered, in order

scrollVars == <<scrollPhase, initNextCursor, lastPage, nextCursorRef,
                isFetchingRef, scrollCreations, fetcherData,
                dataEffectPending, inFlight, submitted, delivered>>

\* Concurrent calls of getOrUploadPictureToS3 on pictures of one md5 hash
\* (app/lib/model/pictureMetadata.server.ts).
VARIABLES
    uploadPhase,          \* "unstarted" or "running"
    uploadPc,             \* per call: where the call stands
    uploadMeta,           \* per call: what findUnique returned (line 72)
    pictureMetadata,      \* the PictureMetadata records
    bucketFiles,          \* the file names in the bucket
    uploadedBy,           \* history: the calls that uploaded a file
    bucketDeletes         \* history: the calls of deleteFilesFromBucket

uploadVars == <<uploadPhase, uploadPc, uploadMeta, pictureMetadata,
                bucketFiles, uploadedBy, bucketDeletes>>

\* Concurrent calls of getOrCreateCustomer for one user, with at most one
\* call of deleteUser and one of updateUser for that user
\* (app/lib/model/user.server.ts).
VARIABLES
    customerPhase,        \* "unstarted" or "running"
    customerPc,           \* per call: where the call stands
    customerUser,         \* per call: the user as read at line 27
    customerOut,          \* per call: the id of the customer returned
    userExists,           \* the User record is in the database
    userCustomerId,       \* the user's stored customerId (0 is null)
    userEmail,            \* the user's stored email
    stripeCustomers,      \* the customers in Stripe
    deletePc,             \* where the call of deleteUser stands ("idle":
                          \* there is no such call)
    deleteCustomerId,     \* deleteUser: user?.customerId as read at line 92
    updatePc,             \* where the call of updateUser stands ("idle":
                          \* there is no such call)
    updateCustomerId      \* updateUser: user.customerId as returned at
                          \* line 80

customerVars == <<customerPhase, customerPc, customerUser, customerOut,
                  userExists, userCustomerId, userEmail, stripeCustomers,
                  deletePc, deleteCustomerId, updatePc, updateCustomerId>>

\* the variables outside the geometry engine
appVars == <<cacheVars, pagerVars, scrollVars, uploadVars, customerVars>>

\* the variables a part leaves alone
notCache == <<geometryVars, pagerVars, scrollVars, uploadVars, customerVars>>
notPager == <<geometryVars, cacheVars, scrollVars, uploadVars, customerVars>>
notScroll == <<geometryVars, cacheVars, pagerVars, uploadVars, customerVars>>
notUpload == <<geometryVars, cacheVars, pagerVars, scrollVars, customerVars>>
notCustomer == <<geometryVars, cacheVars, pagerVars, scrollVars, uploadVars>>

vars == <<geometryVars, appVars>>

\* the variables of the parts modelled after the geometry helpers
laterVars == <<faceVars, appVars>>

\* the arguments of the box helpers that the planners and the matcher lack
helperArgs ==
    <<argEndBox, argAlpha, argBoxSize, argOriginalSize, argNewSize, argBboxes>>

---------------------------------------------------------------------------
(* Bounds of the explored inputs.                                          *)

\* image sides are 0..MaxDim (1..MaxDim where the claim wants them positive)
MaxDim == 3
\* (box coordinates run over -1 .. MaxDim + 1)
\* the aspect ratios given to the planners are p/q with p, q in
\* 1..MaxRatioTerm, those given to getMaxCropSize alone p/q with p, q in
\* 1..MaxCropRatioTerm
MaxRatioTerm == 3
MaxCropRatioTerm == 5
\* zoom values are p/q with p in -1..MaxZoom, q in 1..2
MaxZoom == 2
\* catalogs hold 0..MaxCatalogLen resolutions with sides in 1..MaxSide, 5
\* or 9
MaxCatalogLen == 2
MaxSide == 2
\* photo sizes tried against SUPPORTED_RESOLUTIONS are multiples of PhotoUnit
PhotoUnit == 500
\* the boxes given to lerpBBox have coordinates in 0..MaxLerpCoord
MaxLerpCoord == 1
\* the box helpers are also given boxes that are not on the pixel grid: the
\* boxes on the grid with every coordinate divided by Grain
Grain == 10
\* getEnclosingBBox is given 0..MaxBoxes boxes, each inside a frame
\* MaxBoxes wide and 1 high
MaxBoxes == 2
\* the items of useCachedState have keys 1..MaxKeys, and an items array
\* holds 0..MaxItems of them
MaxKeys == 2
MaxItems == 2
\* the Creation table holds 0..MaxCreations rows, and pageSize is
\* 1..MaxPageSize
MaxCreations == 3
MaxPageSize == 2
\* a paging loop is followed for at most MaxRuns calls of run()
MaxRuns == 5
\* addCreation and deleteCreations are called at most MaxWrites times
\* during a paging loop
MaxWrites == 1
\* the server of useInfiniteScrolling has 1..MaxPages pages
MaxPages == 4
\* at most MaxCalls concurrent calls of getOrUploadPictureToS3, and of
\* getOrCreateCustomer
MaxCalls == 3
\* deleteFilesFromBucket is called at most MaxDeletes times, with at most
\* MaxNames folders and MaxNames file names
MaxDeletes == 1
MaxNames == 2

---------------------------------------------------------------------------
(* Natural numbers of any size.  A natural is the sequence of its digits   *)
(* in base 2^15, the lowest first, without leading zero digits (<<>> is    *)
(* 0): the products and sums below stay within TLC's 32-bit integers.      *)

Abs(k) == IF k < 0 THEN -k ELSE k

Pow2Table ==
    <<1, 2, 4, 8, 16, 32, 64, 128, 256, 512, 1024, 2048, 4096, 8192, 16384>>

\* the bits of a digit, and the base 2^15
LimbBits == Len(Pow2Table)
Base == 2 * Pow2Table[LimbBits]

\* 2^k for k in 0..14
Pow2(k) == Pow2Table[k + 1]

\* the number of bits of a digit
LimbLenTable ==
    [x \in 0..(Base - 1) |->
        Cardinality({i \in 1..LimbBits : Pow2Table[i] <= x})]
LimbLen(x) == LimbLenTable[x]

\* the number of zero bits at the low end of a digit other than 0
LimbZerosTable ==
    [x \in 1..(Base - 1) |->
        Cardinality({i \in 2..LimbBits : x % Pow2Table[i] = 0})]
LimbZeros(x) == LimbZerosTable[x]

\* x without its leading zero digits
RECURSIVE BTrim(_)
BTrim(x) ==
    IF x = <<>> THEN x
    ELSE IF x[Len(x)] = 0 THEN BTrim(SubSeq(x, 1, Len(x) - 1))
    ELSE x

\* the natural k
BNat(k) == BTrim(<<k % Base, (k \div Base) % Base, k \div (Base * Base)>>)

Limb(x, i) == IF i <= Len(x) THEN x[i] ELSE 0

RECURSIVE BCmpFrom(_, _, _)
BCmpFrom(x, y, i) ==
    IF i = 0 THEN 0
    ELSE IF x[i] # y[i] THEN (IF x[i] < y[i] THEN -1 ELSE 1)
    ELSE BCmpFrom(x, y, i - 1)

\* -1, 0 or 1 as x < y, x = y or x > y
BCmp(x, y) ==
    IF Len(x) # Len(y) THEN (IF Len(x) < Len(y) THEN -1 ELSE 1)
    ELSE BCmpFrom(x, y, Len(x))

RECURSIVE BAddFrom(_, _, _, _)
BAddFrom(x, y, i, carry) ==
    IF i > Len(x) /\ i > Len(y)
    THEN (IF carry = 0 THEN <<>> ELSE <<carry>>)
    ELSE LET t == Limb(x, i) + Limb(y, i) + carry
         IN  <<t % Base>> \o BAddFrom(x, y, i + 1, t \div Base)

\* x + y
BAdd(x, y) == BAddFrom(x, y, 1, 0)

RECURSIVE BSubFrom(_, _, _, _)
BSubFrom(x, y, i, borrow) ==
    IF i > Len(x) THEN <<>>
    ELSE LET t == x[i] - Limb(y, i) - borrow
         IN  IF t < 0 THEN <<t + Base>> \o BSubFrom(x, y, i + 1, 1)
             ELSE <<t>> \o BSubFrom(x, y, i + 1, 0)

\* x - y, for x >= y
BSub(x, y) == BTrim(BSubFrom(x, y, 1, 0))

\* the distance of x and y
BDiff(x, y) == IF BCmp(x, y) < 0 THEN BSub(y, x) ELSE BSub(x, y)

RECURSIVE BMulSmallFrom(_, _, _, _)
BMulSmallFrom(x, k, i, carry) ==
    IF i > Len(x) THEN (IF carry = 0 THEN <<>> ELSE <<carry>>)
    ELSE LET t == x[i] * k + carry
         IN  <<t % Base>> \o BMulSmallFrom(x, k, i + 1, t \div Base)

\* x * k, for a digit k
BMulSmall(x, k) ==
    IF k = 0 THEN <<>> ELSE IF k = 1 THEN x ELSE BMulSmallFrom(x, k, 1, 0)

\* x * Base^n
BShiftLimbs(x, n) == IF x = <<>> THEN x ELSE [i \in 1..n |-> 0] \o x

\* x times the digits lo..hi of y, each at its own position
RECURSIVE BMulRange(_, _, _, _)
BMulRange(x, y, lo, hi) ==
    IF lo = hi THEN BShiftLimbs(BMulSmall(x, y[lo]), lo - 1)
    ELSE BAdd(BMulRange(x, y, lo, (lo + hi) \div 2),
              BMulRange(x, y, (lo + hi) \div 2 + 1, hi))

\* x * y
BMul(x, y) == IF y = <<>> THEN <<>> ELSE BMulRange(x, y, 1, Len(y))

\* x * 2^n
BShl(x, n) == BShiftLimbs(BMulSmall(x, Pow2(n % LimbBits)), n \div LimbBits)

\* x \div 2^n
BShr(x, n) ==
    LET w == n \div LimbBits
        b == n % LimbBits
    IN  IF w >= Len(x) THEN <<>>
        ELSE IF b = 0 THEN SubSeq(x, w + 1, Len(x))
        ELSE BTrim([i \in 1..(Len(x) - w) |->
                       (x[i + w] \div Pow2(b))
                           + (Limb(x, i + w + 1) % Pow2(b)) * Pow2(LimbBits - b)])

\* x % 2^n
BLow(x, n) == BSub(x, BShl(BShr(x, n), n))

\* the number of bits of x
BBitLen(x) ==
    IF x = <<>> THEN 0
    ELSE LimbBits * (Len(x) - 1) + LimbLen(x[Len(x)])

\* the division of x by k, for 1 <= k < Base, resumed from qr, the pair
\* <<quotient, remainder>> of the digits of x already divided (the highest
\* Len(qr[1]) of them); the remainder is the natural <<>> or <<r>>
RECURSIVE BDivSmallFrom(_, _, _)
BDivSmallFrom(x, k, qr) ==
    IF Len(qr[1]) = Len(x) THEN qr
    ELSE LET t == Limb(qr[2], 1) * Base + x[Len(x) - Len(qr[1])]
         IN  BDivSmallFrom(x, k, <<<<t \div k>> \o qr[1], BNat(t % k)>>)

\* the greatest digit q <= qhat with d * q <= r
RECURSIVE BFixDigit(_, _, _)
BFixDigit(r, d, qhat) ==
    IF BCmp(BMulSmall(d, qhat), r) > 0 THEN BFixDigit(r, d, qhat - 1)
    ELSE qhat

\* the quotient digit of r by d, for r < d * Base and the top digit of d
\* at least Base / 2: the estimate from the top digits is at most 2 too big
BDigit(r, d) ==
    IF BCmp(r, d) < 0 THEN 0
    ELSE LET n == Len(d)
             top == IF Len(r) > n THEN r[n + 1] * Base + r[n] ELSE r[n]
             est == top \div d[n]
         IN  BFixDigit(r, d, IF est >= Base THEN Base - 1 ELSE est)

\* the quotient q gets the digit k below its digits, and r loses d * k
BDivDigit(d, q, r, k) == <<<<k>> \o q, BSub(r, BMulSmall(d, k))>>

\* one step of the long division of x by d after qr, the pair <<quotient,
\* remainder>> of the digits of x already divided: r is the remainder with
\* the next digit of x below it
BDivStep(d, q, r) == BDivDigit(d, q, r, BDigit(r, d))

\* long division resumed from qr, until every digit of x is divided
RECURSIVE BDivFrom(_, _, _)
BDivFrom(x, d, qr) ==
    IF Len(qr[1]) = Len(x) THEN qr
    ELSE BDivFrom(x, d,
                  BDivStep(d, qr[1],
                           BTrim(<<x[Len(x) - Len(qr[1])]>> \o qr[2])))

\* long division of x by d, the top digit of d at least Base / 2: it starts
\* below the top Len(d) - 1 digits of x, which are less than d
BDivLong(x, d) ==
    BDivFrom(x, d, <<[i \in 1..(Len(d) - 1) |-> 0],
                     SubSeq(x, Len(x) - Len(d) + 2, Len(x))>>)

\* the pair <<quotient, remainder>> as <<quotient, the division was exact>>
BExact(qr) == <<BTrim(qr[1]), qr[2] = <<>>>>

\* <<x \div d, x % d = 0>>, for d > 0: x and d are scaled to bring the top
\* digit of d to Base / 2 or more
BDiv(x, d) ==
    IF Len(d) = 1 THEN BExact(BDivSmallFrom(x, d[1], <<<<>>, <<>>>>))
    ELSE IF Len(x) < Len(d) THEN <<<<>>, x = <<>>>>
    ELSE BExact(BDivLong(BShl(x, LimbBits - LimbLen(d[Len(d)])),
                         BShl(d, LimbBits - LimbLen(d[Len(d)]))))

---------------------------------------------------------------------------
(* JavaScript numbers (IEEE-754 binary64, round to nearest, ties to even). *)

Double(s, m, e) == [sign |-> s, mant |-> m, exp |-> e]

Zero == Double(1, <<>>, 0)
NegZero == Double(-1, <<>>, 0)
NaN == Double(0, <<>>, 1)
Infinity == Double(1, <<>>, 1)
NegInfinity == Double(-1, <<>>, 1)

IsNaN(a) == a = NaN
IsFinite(a) == a.mant # <<>> \/ a.exp = 0
IsZero(a) == a.mant = <<>> /\ a.exp = 0

\* -1, 0 or 1 as the number is below 0, is +0 or -0, or is above 0 (not
\* for NaN)
Sgn(a) == IF IsZero(a) THEN 0 ELSE a.sign

\* a === b
Same(a, b) == ~IsNaN(a) /\ (a = b \/ (IsZero(a) /\ IsZero(b)))

\* s * m * 2^e with the zero bits at the low end of m moved into e
RECURSIVE Canon(_, _, _)
Canon(s, m, e) ==
    IF m = <<>> THEN Double(s, <<>>, 0)
    ELSE IF m[1] = 0 THEN Canon(s, Tail(m), e + LimbBits)
    ELSE IF m[1] % 2 = 1 THEN Double(s, m, e)
    ELSE Double(s, BShr(m, LimbZeros(m[1])), e + LimbZeros(m[1]))

\* q, or q + 1 when the part cut off below q is more than half a unit of
\* q (c > 0) or is half a unit (c = 0) and q is odd
RoundedUp(q, c) ==
    IF c > 0 \/ (c = 0 /\ q # <<>> /\ q[1] % 2 = 1) THEN BAdd(q, <<1>>)
    ELSE q

\* the multiple of 2^(e + n) nearest to s * m * 2^e, a tie going to the
\* even multiple, for n > 0
RoundOff(s, m, e, n) ==
    Canon(s,
          RoundedUp(BShr(m, n), BCmp(BShl(BLow(m, n), 1), BShl(<<1>>, n))),
          e + n)

\* the bits that s * m * 2^e, with m of len bits, has below the lowest bit
\* of the double nearest to it: those beyond 53 bits or, for a subnormal
\* result, those worth less than 2^-1074
DroppedBits(len, e) ==
    IF len - 53 > -1074 - e THEN len - 53 ELSE -1074 - e

\* the rounded number d, or Infinity of its sign when it is 2^1024 or more
Overflow(d) ==
    IF d.exp > 1024 - 53 /\ BBitLen(d.mant) + d.exp > 1024
    THEN Double(d.sign, <<>>, 1) ELSE d

\* the double nearest to s * m * 2^e at the limits of the exponent (0 when
\* all bits of m are dropped: the number is less than half of 2^-1074)
RoundAtLimits(s, m, e) ==
    IF DroppedBits(BBitLen(m), e) <= 0 THEN Overflow(Canon(s, m, e))
    ELSE IF DroppedBits(BBitLen(m), e) > BBitLen(m) THEN Double(s, <<>>, 0)
    ELSE Overflow(RoundOff(s, m, e, DroppedBits(BBitLen(m), e)))

\* the double nearest to s * m * 2^e: away from the limits of the exponent
\* (the number is 2^-1021 or more and less than 2^1023) the bits beyond 53
\* are dropped
RoundTo53(s, m, e) ==
    IF e < -1021 \/ e + BBitLen(m) > 1023 THEN RoundAtLimits(s, m, e)
    ELSE IF BBitLen(m) <= 53 THEN Canon(s, m, e)
    ELSE RoundOff(s, m, e, BBitLen(m) - 53)

\* the integer k
Num(k) == Canon(IF k < 0 THEN -1 ELSE 1, BNat(Abs(k)), 0)

Neg(a) == Double(-a.sign, a.mant, a.exp)

\* sa * x * 2^e + sb * y * 2^e for x, y > 0
AddAligned(sa, x, sb, y, e) ==
    IF sa = sb THEN RoundTo53(sa, BAdd(x, y), e)
    ELSE IF x = y THEN Zero
    ELSE RoundTo53(IF BCmp(x, y) > 0 THEN sa ELSE sb, BDiff(x, y), e)

\* a + b for finite a and b other than 0, both mantissas brought to the
\* exponent e, the lower one of the two
AddAt(a, b, e) ==
    AddAligned(a.sign, BShl(a.mant, a.exp - e),
               b.sign, BShl(b.mant, b.exp - e), e)

\* |b| is less than 2^-64 of |a|, for finite a and b other than 0 (whose
\* mantissas have 1 to 53 bits): the double nearest to a + b is a
Outweighs(a, b) == a.exp > b.exp + 117

\* a + b for finite a and b
AddFinite(a, b) ==
    IF IsZero(a) /\ IsZero(b) THEN (IF a.sign = b.sign THEN a ELSE Zero)
    ELSE IF IsZero(a) THEN b
    ELSE IF IsZero(b) THEN a
    ELSE IF Outweighs(a, b) THEN a
    ELSE IF Outweighs(b, a) THEN b
    ELSE AddAt(a, b, IF a.exp < b.exp THEN a.exp ELSE b.exp)

\* a + b
Add(a, b) ==
    IF IsFinite(a) /\ IsFinite(b) THEN AddFinite(a, b)
    ELSE IF IsNaN(a) \/ IsNaN(b) THEN NaN
    ELSE IF ~IsFinite(a) /\ ~IsFinite(b) THEN (IF a = b THEN a ELSE NaN)
    ELSE IF ~IsFinite(a) THEN a
    ELSE b

\* a - b
Sub(a, b) == Add(a, Neg(b))

\* a * b
Mul(a, b) ==
    IF a.mant # <<>> /\ b.mant # <<>>
    THEN RoundTo53(a.sign * b.sign, BMul(a.mant, b.mant), a.exp + b.exp)
    ELSE IF IsNaN(a) \/ IsNaN(b) THEN NaN
    ELSE IF IsFinite(a) /\ IsFinite(b) THEN Double(a.sign * b.sign, <<>>, 0)
    ELSE IF IsZero(a) \/ IsZero(b) THEN NaN
    ELSE Double(a.sign * b.sign, <<>>, 1)

\* the quotient q of a division as 2 * q, one more when the division left
\* a remainder
WithSticky(q) ==
    IF q[2] THEN BShl(q[1], 1) ELSE BAdd(BShl(q[1], 1), <<1>>)

\* a / b for finite a and b other than 0, the mantissa of a shifted by k
\* bits: the quotient of the mantissas has 55 bits or more
DivAt(a, b, k) ==
    RoundTo53(a.sign * b.sign, WithSticky(BDiv(BShl(a.mant, k), b.mant)),
              a.exp - b.exp - k - 1)

\* a / b for finite a and b other than 0
DivFinite(a, b) ==
    IF b.mant = <<1>>
    THEN RoundTo53(a.sign * b.sign, a.mant, a.exp - b.exp)
    ELSE IF BBitLen(a.mant) < 55 + BBitLen(b.mant)
    THEN DivAt(a, b, 55 + BBitLen(b.mant) - BBitLen(a.mant))
    ELSE DivAt(a, b, 0)

\* a / b
Div(a, b) ==
    IF a.mant # <<>> /\ b.mant # <<>> THEN DivFinite(a, b)
    ELSE IF IsNaN(a) \/ IsNaN(b) THEN NaN
    ELSE IF ~IsFinite(a) /\ ~IsFinite(b) THEN NaN
    ELSE IF IsZero(a) /\ IsZero(b) THEN NaN
    ELSE Double(a.sign * b.sign, <<>>,
                IF IsZero(b) \/ ~IsFinite(a) THEN 1 ELSE 0)

\* the JavaScript number p / q for integers p and q
Frac(p, q) == Div(Num(p), Num(q))

\* |a| < |b| for finite a and b other than 0
MagLt(a, b) ==
    LET ta == BBitLen(a.mant) + a.exp
        tb == BBitLen(b.mant) + b.exp
        e == IF a.exp < b.exp THEN a.exp ELSE b.exp
    IN  IF ta # tb THEN ta < tb
        ELSE BCmp(BShl(a.mant, a.exp - e), BShl(b.mant, b.exp - e)) < 0

\* a < b
Lt(a, b) ==
    IF a.mant # <<>> /\ b.mant # <<>> /\ a.sign = b.sign
    THEN (IF a.sign > 0 THEN MagLt(a, b) ELSE MagLt(b, a))
    ELSE IF IsNaN(a) \/ IsNaN(b) THEN FALSE
    ELSE IF Sgn(a) # Sgn(b) THEN Sgn(a) < Sgn(b)
    ELSE IF Sgn(a) = 0 THEN FALSE
    ELSE IF a.sign > 0 THEN IsFinite(a) /\ ~IsFinite(b)
    ELSE ~IsFinite(a) /\ IsFinite(b)

\* a > b
Gt(a, b) == Lt(b, a)

\* a <= b
Le(a, b) == ~IsNaN(a) /\ ~IsNaN(b) /\ ~Lt(b, a)

\* Math.max(a, b): +0 counts as greater than -0
Max(a, b) ==
    IF IsNaN(a) \/ IsNaN(b) THEN NaN
    ELSE IF Lt(a, b) THEN b
    ELSE IF Lt(b, a) THEN a
    ELSE IF a.sign > 0 THEN a ELSE b

\* Math.min(a, b): -0 counts as less than +0
Min(a, b) ==
    IF IsNaN(a) \/ IsNaN(b) THEN NaN
    ELSE IF Lt(b, a) THEN b
    ELSE IF Lt(a, b) THEN a
    ELSE IF a.sign < 0 THEN a ELSE b

\* the integer part of m / 2^n with a half added (up) or with a half
\* taken off and rounded up (~up)
RoundedMant(m, n, up) ==
    IF up THEN BShr(BAdd(m, BShl(<<1>>, n - 1)), n)
    ELSE IF BCmp(m, BShl(<<1>>, n - 1)) < 0 THEN <<>>
    ELSE BShr(BAdd(BSub(m, BShl(<<1>>, n - 1)), BSub(BShl(<<1>>, n), <<1>>)),
              n)

\* Math.round(a): the nearest integer, a tie going up; the result is exact
\* and keeps the sign of a when it is 0 (as it is for |a| < 1/4)
Round(a) ==
    IF ~IsFinite(a) \/ a.exp >= 0 THEN a
    ELSE IF -a.exp > BBitLen(a.mant) + 1 THEN Double(a.sign, <<>>, 0)
    ELSE Canon(a.sign, RoundedMant(a.mant, -a.exp, a.sign > 0), 0)

---------------------------------------------------------------------------
(* Types.                                                                  *)

\* type BBox = [number, number, number, number]
BBox(x1, y1, x2, y2) == <<x1, y1, x2, y2>>

\* type Vector2 = [number, number]
Vector2(a, b) == <<a, b>>

\* sharp.Region
Region(l, t, w, h) == [left |-> l, top |-> t, width |-> w, height |-> h]

NoBox == BBox(Num(0), Num(0), Num(0), Num(0))
NoVec == Vector2(Num(0), Num(0))
NoRegion == Region(Num(0), Num(0), Num(0), Num(0))
\* an element of FaceDetectionOutput, reduced to its bounding box
Face(b) == [bbox |-> b]
NoFace == Face(NoBox)

---------------------------------------------------------------------------
(* BBox arithmetic.                                                        *)

getBBoxArea(b) == Mul(Sub(b[3], b[1]), Sub(b[4], b[2]))

\* the reducer of extractBiggestFace keeping the face of smaller area
BiggestStep_KeepsSmaller(prev, curr) ==
    IF Lt(getBBoxArea(prev.bbox), getBBoxArea(curr.bbox)) THEN prev ELSE curr

\* the reducer of extractBiggestFace (lines 385-389)
BiggestStep(prev, curr) ==
    IF Gt(getBBoxArea(prev.bbox), getBBoxArea(curr.bbox)) THEN prev ELSE curr

\* Array.prototype.reduce without an initial value, from index i on
RECURSIVE BiggestFrom(_, _, _)
BiggestFrom(faces, i, acc) ==
    IF i > Len(faces) THEN acc
    ELSE BiggestFrom(faces, i + 1, BiggestStep(acc, faces[i]))

\* for a non-empty list (reduce throws a TypeError on an empty one)
extractBiggestFace(faces) == BiggestFrom(faces, 2, faces[1])

\* resizeBBox dividing the x coordinates by the original height
resizeBBox_DividesXByHeight(b, originalSize, newSize) ==
    LET new_x1 == Div(Mul(b[1], newSize[1]), originalSize[2])
        new_y1 == Div(Mul(b[2], newSize[2]), originalSize[2])
        new_x2 == Div(Mul(b[3], newSize[1]), originalSize[2])
        new_y2 == Div(Mul(b[4], newSize[2]), originalSize[2])
    IN  BBox(new_x1, new_y1, new_x2, new_y2)

resizeBBox(b, originalSize, newSize) ==
    LET new_x1 == Div(Mul(b[1], newSize[1]), originalSize[1])
        new_y1 == Div(Mul(b[2], newSize[2]), originalSize[2])
        new_x2 == Div(Mul(b[3], newSize[1]), originalSize[1])
        new_y2 == Div(Mul(b[4], newSize[2]), originalSize[2])
    IN  BBox(new_x1, new_y1, new_x2, new_y2)

\* clipBBox returning its four numbers as x1, x2, y1, y2
clipBBox_WrongOrder(b, w, h) ==
    LET new_x1 == Max(Num(0), Min(b[1], w))
        new_y1 == Max(Num(0), Min(b[2], h))
        new_x2 == Max(Num(0), Min(b[3], w))
        new_y2 == Max(Num(0), Min(b[4], h))
    IN  BBox(new_x1, new_x2, new_y1, new_y2)

clipBBox(b, w, h) ==
    LET new_x1 == Max(Num(0), Min(b[1], w))
        new_y1 == Max(Num(0), Min(b[2], h))
        new_x2 == Max(Num(0), Min(b[3], w))
        new_y2 == Max(Num(0), Min(b[4], h))
    IN  BBox(new_x1, new_y1, new_x2, new_y2)

\* cropBBox adding the region's origin where it should subtract it
cropBBox_AddsOrigin(b, region) ==
    LET new_x1 == Add(b[1], region.left)
        new_y1 == Add(b[2], region.top)
        new_x2 == Add(b[3], region.left)
        new_y2 == Add(b[4], region.top)
    IN  clipBBox(BBox(new_x1, new_y1, new_x2, new_y2),
                 region.width, region.height)

cropBBox(b, region) ==
    LET new_x1 == Sub(b[1], region.left)
        new_y1 == Sub(b[2], region.top)
        new_x2 == Sub(b[3], region.left)
        new_y2 == Sub(b[4], region.top)
    IN  clipBBox(BBox(new_x1, new_y1, new_x2, new_y2),
                 region.width, region.height)

\* lerpBBox applying alpha[0] to all four coordinates
lerpBBox_OneAlpha(startBox, endBox, alpha) ==
    [i \in 1..4 |->
        Add(startBox[i], Mul(alpha[1], Sub(endBox[i], startBox[i])))]

lerpBBox(startBox, endBox, alpha) ==
    LET alphas == <<alpha[1], alpha[2], alpha[1], alpha[2]>>
    IN  [i \in 1..4 |->
            Add(startBox[i], Mul(alphas[i], Sub(endBox[i], startBox[i])))]

\* the reducer of getEnclosingBBox (lines 480-485)
EnclosingStep(acc, b) ==
    BBox(Min(acc[1], b[1]), Min(acc[2], b[2]),
         Max(acc[3], b[3]), Max(acc[4], b[4]))

\* Array.prototype.reduce with an initial value, from index i on
RECURSIVE EnclosingFrom(_, _, _)
EnclosingFrom(list, i, acc) ==
    IF i > Len(list) THEN acc
    ELSE EnclosingFrom(list, i + 1, EnclosingStep(acc, list[i]))

\* getEnclosingBBox reducing from the box [0, 0, 0, 0]
getEnclosingBBox_FromZeroBox(list) ==
    EnclosingFrom(list, 1, BBox(Num(0), Num(0), Num(0), Num(0)))

getEnclosingBBox(list) ==
    EnclosingFrom(list, 1, BBox(Infinity, Infinity, NegInfinity, NegInfinity))

\* getBBoxFromAlpha interpolating from the bottom-right box to the top-left
getBBoxFromAlpha_EndsSwapped(w, h, boxWidth, boxHeight, boxAlpha) ==
    LET topLeftBox == BBox(Num(0), Num(0), boxWidth, boxHeight)
        bottomRightBox == BBox(Sub(w, boxWidth), Sub(h, boxHeight), w, h)
    IN  lerpBBox(bottomRightBox, topLeftBox, boxAlpha)

getBBoxFromAlpha(w, h, boxWidth, boxHeight, boxAlpha) ==
    LET topLeftBox == BBox(Num(0), Num(0), boxWidth, boxHeight)
        bottomRightBox == BBox(Sub(w, boxWidth), Sub(h, boxHeight), w, h)
    IN  lerpBBox(topLeftBox, bottomRightBox, boxAlpha)

\* lines 533-534: alphaX from x1 and sizeX, alphaY from y1 and sizeY
AlphaOf(x1, w, sizeX) == Div(x1, Sub(w, sizeX))

getAlphaFromBBox(b, w, h) ==
    Vector2(AlphaOf(b[1], w, Sub(b[3], b[1])),
            AlphaOf(b[2], h, Sub(b[4], b[2])))

\* shiftCoordinates moving only the overrunning right/bottom edge
shiftCoordinates_EdgeOnly(b, w, h) ==
    LET bboxWidth == Sub(b[3], b[1])
        bboxHeight == Sub(b[4], b[2])
        xa == IF Lt(b[1], Num(0)) THEN <<Num(0), Add(Num(0), bboxWidth)>>
                                  ELSE <<b[1], b[3]>>
        ya == IF Lt(b[2], Num(0)) THEN <<Num(0), Add(Num(0), bboxHeight)>>
                                  ELSE <<b[2], b[4]>>
        xb == IF Gt(xa[2], w) THEN <<xa[1], w>> ELSE xa
        yb == IF Gt(ya[2], h) THEN <<ya[1], h>> ELSE ya
    IN  BBox(xb[1], yb[1], xb[2], yb[2])

\* shiftCoordinates testing the right/bottom overrun before the left/top one
shiftCoordinates_RightFirst(b, w, h) ==
    LET bboxWidth == Sub(b[3], b[1])
        bboxHeight == Sub(b[4], b[2])
        xa == IF Gt(b[3], w) THEN <<Sub(w, bboxWidth), w>> ELSE <<b[1], b[3]>>
        ya == IF Gt(b[4], h) THEN <<Sub(h, bboxHeight), h>> ELSE <<b[2], b[4]>>
        xb == IF Lt(xa[1], Num(0)) THEN <<Num(0), Add(Num(0), bboxWidth)>>
                                   ELSE xa
        yb == IF Lt(ya[1], Num(0)) THEN <<Num(0), Add(Num(0), bboxHeight)>>
                                   ELSE ya
    IN  BBox(xb[1], yb[1], xb[2], yb[2])

\* lines 554-557, and 558-561 for y: if (x1 < 0) { x1 = 0; x2 = x1 +
\* bboxWidth }; the pair <<x1, x2>> after the statement
ShiftFromZero(x1, x2, bboxWidth) ==
    IF Lt(x1, Num(0)) THEN <<Num(0), Add(Num(0), bboxWidth)>> ELSE <<x1, x2>>

\* lines 562-565, and 566-569 for y: if (x2 > imageWidth) { x2 =
\* imageWidth; x1 = x2 - bboxWidth }; x is the pair <<x1, x2>>
ShiftToEdge(x, w, bboxWidth) ==
    IF Gt(x[2], w) THEN <<Sub(w, bboxWidth), w>> ELSE x

\* the two statements on the coordinates of one axis, in the code's order
\* (the statements on x and those on y share no variable)
ShiftAxis(x1, x2, w, bboxWidth) ==
    ShiftToEdge(ShiftFromZero(x1, x2, bboxWidth), w, bboxWidth)

\* line 571: return [x1, y1, x2, y2]
ShiftedBox(x, y) == BBox(x[1], y[1], x[2], y[2])

shiftCoordinates(b, w, h) ==
    ShiftedBox(ShiftAxis(b[1], b[3], w, Sub(b[3], b[1])),
               ShiftAxis(b[2], b[4], h, Sub(b[4], b[2])))

\* getMaxCropSize multiplying where it should divide
getMaxCropSize_HeightTimesRatio(w, h, r) ==
    IF Gt(Div(w, h), r)
    THEN Vector2(Mul(h, r), h)
    ELSE Vector2(w, Mul(w, r))

getMaxCropSize(w, h, r) ==
    IF Gt(Div(w, h), r)
    THEN Vector2(Mul(h, r), h)
    ELSE Vector2(w, Div(w, r))

\* lines 622-626: topLeftCrop, crop being [cropWidth, cropHeight]
TopLeftCrop(w, h, b, crop) ==
    shiftCoordinates(BBox(Sub(b[3], crop[1]), Sub(b[4], crop[2]), b[3], b[4]),
                     w, h)

\* lines 627-631: bottomRightCrop
BottomRightCrop(w, h, b, crop) ==
    shiftCoordinates(BBox(b[1], b[2], Add(b[1], crop[1]), Add(b[2], crop[2])),
                     w, h)

\* lines 634-635: alpha and middleCrop
MiddleCrop(w, h, b, crop) ==
    lerpBBox(BottomRightCrop(w, h, b, crop), TopLeftCrop(w, h, b, crop),
             getAlphaFromBBox(b, w, h))

\* lines 620-635 of getResponsiveCropRegion: the crop window before rounding
ResponsiveMiddleCrop(w, h, r, b) ==
    MiddleCrop(w, h, b, getMaxCropSize(w, h, r))

\* lines 637-642: the return statement of getResponsiveCropRegion
ResponsiveRegion(middleCrop, crop) ==
    Region(Round(middleCrop[1]), Round(middleCrop[2]),
           Round(crop[1]), Round(crop[2]))

getResponsiveCropRegion(w, h, r, b) ==
    ResponsiveRegion(ResponsiveMiddleCrop(w, h, r, b),
                     getMaxCropSize(w, h, r))

\* getRelativeCropRegion shrinking the window by 1/zoom without moving its
\* corner towards the centre of the region of interest
RelativeCropWindow_ZoomKeepsCorner(w, h, r, b, z) ==
    LET x == Div(Add(b[1], b[3]), Num(2))
        y == Div(Add(b[2], b[4]), Num(2))
        crop == getMaxCropSize(w, h, r)
        left == Sub(x, Mul(Div(x, w), crop[1]))
        top == Sub(y, Mul(Div(y, h), crop[2]))
        inv == Div(Num(1), z)
    IN  IF Lt(inv, Num(1))
        THEN Region(left, top, Mul(crop[1], inv), Mul(crop[2], inv))
        ELSE Region(left, top, crop[1], crop[2])

\* getRelativeCropRegion computing top from the crop's width
RelativeCropWindow_TopFromWidth(w, h, r, b, z) ==
    LET x == Div(Add(b[1], b[3]), Num(2))
        y == Div(Add(b[2], b[4]), Num(2))
        crop == getMaxCropSize(w, h, r)
        left == Sub(x, Mul(Div(x, w), crop[1]))
        top == Sub(y, Mul(Div(y, h), crop[1]))
        inv == Div(Num(1), z)
    IN  IF Lt(inv, Num(1))
        THEN Region(Sub(x, Mul(Sub(x, left), inv)),
                    Sub(y, Mul(Sub(y, top), inv)),
                    Mul(crop[1], inv), Mul(crop[2], inv))
        ELSE Region(left, top, crop[1], crop[2])

\* line 671: [x, y], the middle point of bbox
MiddlePoint(b) ==
    Vector2(Div(Add(b[1], b[3]), Num(2)), Div(Add(b[2], b[4]), Num(2)))

\* lines 672-678: left, top, width and height before the zoom, for the
\* middle point p and crop = [cropWidth, cropHeight]; xp is p[1] /
\* imageWidth and yp is p[2] / imageHeight
WindowAround(w, h, p, crop) ==
    Region(Sub(p[1], Mul(Div(p[1], w), crop[1])),
           Sub(p[2], Mul(Div(p[2], h), crop[2])),
           crop[1], crop[2])

\* lines 682-687: if (zoom < 1) { ... }, inv being the zoom that line 681
\* inverted
ZoomedWindow(p, win, inv) ==
    IF Lt(inv, Num(1))
    THEN Region(Sub(p[1], Mul(Sub(p[1], win.left), inv)),
                Sub(p[2], Mul(Sub(p[2], win.top), inv)),
                Mul(win.width, inv), Mul(win.height, inv))
    ELSE win

\* lines 672-687, line 681 being zoom = 1 / zoom
WindowAt(w, h, p, crop, z) ==
    ZoomedWindow(p, WindowAround(w, h, p, crop), Div(Num(1), z))

\* lines 670-687 of getRelativeCropRegion: the crop window before rounding
RelativeCropWindow(w, h, r, b, z) ==
    WindowAt(w, h, MiddlePoint(b), getMaxCropSize(w, h, r), z)

\* the return statement of getRelativeCropRegion: Math.round of each field
RoundedRegion(win) ==
    Region(Round(win.left), Round(win.top),
           Round(win.width), Round(win.height))

getRelativeCropRegion(w, h, r, b, z) ==
    RoundedRegion(RelativeCropWindow(w, h, r, b, z))

---------------------------------------------------------------------------
(* Resolution matcher.                                                     *)

\* lines 713-714: the distance of the aspect ratio resAr to ar
RatioOf(resAr, ar) == Div(Max(resAr, ar), Min(resAr, ar))

\* lines 711-714: prevAr and prevRatio of prev (currAr and currRatio of curr)
RatioTo(res, ar) == RatioOf(Div(res[1], res[2]), ar)

\* the callback with the comparison reversed (> for <)
ClosestStep_Reversed(prev, curr, ar) ==
    IF Gt(RatioTo(prev, ar), RatioTo(curr, ar)) THEN prev ELSE curr

\* the callback of reduce, lines 710-716
ClosestStep(prev, curr, ar) ==
    IF Lt(RatioTo(prev, ar), RatioTo(curr, ar)) THEN prev ELSE curr

\* Array.prototype.reduce without an initial value, resumed at st, the pair
\* <<accumulator, index of the next element>>
RECURSIVE ReduceFrom(_, _, _)
ReduceFrom(st, list, ar) ==
    IF st[2] > Len(list) THEN st[1]
    ELSE ReduceFrom(<<ClosestStep(st[1], list[st[2]], ar), st[2] + 1>>,
                    list, ar)

\* the catalog must be non-empty (reduce of an empty array throws TypeError)
getClosestSupportedResolution(w, h, list) ==
    ReduceFrom(<<list[1], 2>>, list, Div(w, h))

SUPPORTED_RESOLUTIONS ==
    << Vector2(Num(768), Num(512)),
       Vector2(Num(640), Num(512)),
       Vector2(Num(512), Num(512)),
       Vector2(Num(512), Num(640)),
       Vector2(Num(512), Num(768)) >>

---------------------------------------------------------------------------
(* Input domains.                                                          *)

Dims == {Num(k) : k \in 0..MaxDim}
PosDims == {Num(k) : k \in 1..MaxDim}
Coords == {Num(k) : k \in -1..(MaxDim + 1)}
AnyBoxes == {BBox(x1, y1, x2, y2) : x1 \in Coords, y1 \in Coords,
                                    x2 \in Coords, y2 \in Coords}

\* the integer that the number a is, for an integer a in 0..2^15 - 1
IntOf(a) == Limb(a.mant, 1) * Pow2(a.exp)

\* the pairs lo <= hi within 0..n
Spans(n) == {s \in (0..n) \X (0..n) : s[1] <= s[2]}
\* boxes inside the w x h image: 0 <= x1 <= x2 <= w, 0 <= y1 <= y2 <= h
InsideBoxes(w, h) ==
    {BBox(Num(p[1]), Num(q[1]), Num(p[2]), Num(q[2])) :
        p \in Spans(IntOf(w)), q \in Spans(IntOf(h))}
\* the integer boxes of a set, and each of them with its coordinates divided
\* by Grain
Shrunk(b) == [i \in 1..4 |-> Div(b[i], Num(Grain))]
WithShrunk(boxes) == boxes \cup {Shrunk(b) : b \in boxes}
Ratios == {Frac(p, q) : p \in 1..MaxRatioTerm, q \in 1..MaxRatioTerm}
CropRatios ==
    {Frac(p, q) : p \in 1..MaxCropRatioTerm, q \in 1..MaxCropRatioTerm}
Zooms == {Frac(p, q) : p \in -1..MaxZoom, q \in 1..2}
\* the sides of a catalog entry: 5/9 and 9/5 are no binary fractions, so
\* that their distances to a ratio are rounded
Sides == (1..MaxSide) \cup {5, 9}
Resolutions == {Vector2(Num(a), Num(b)) : a \in Sides, b \in Sides}
Catalogs == UNION {[1..n -> Resolutions] : n \in 0..MaxCatalogLen}
PhotoDims == {Num(k * PhotoUnit) : k \in 1..MaxDim}
\* image sides off the small grid: sides whose quotients are no binary
\* fractions, and the photo sizes
WideDims == {Num(7), Num(11), Num(15), Num(17)} \cup PhotoDims
\* the pairs lo <= hi among 0, 1 and n
EdgeSpans(n) == {s \in {0, 1, n} \X {0, 1, n} : s[1] <= s[2]}
\* boxes inside the w x h image with their corners at 0, 1 or the far edge
EdgeBoxes(w, h) ==
    {BBox(Num(p[1]), Num(q[1]), Num(p[2]), Num(q[2])) :
        p \in EdgeSpans(IntOf(w)), q \in EdgeSpans(IntOf(h))}
\* a call of getMaxCropSize: a small image with a ratio of small terms, or
\* an image off the small grid with its own ratio
CropCalls ==
    {<<w, h, r>> : w \in PosDims, h \in PosDims, r \in CropRatios}
        \cup {<<w, h, Div(w, h)>> : w \in WideDims, h \in WideDims}
\* the calls of the two crop planners: a small image with a ratio of small
\* terms and any box inside it, or an image off the small grid with its own
\* ratio and a box of EdgeBoxes; getRelativeCropRegion is given any zoom of
\* Zooms with a small image, and zoom 1 or 2 with the others
PlannerDims == PosDims \cup WideDims
PlannerHeights(w) == IF w \in PosDims THEN PosDims ELSE WideDims
PlannerRatios(w, h) ==
    IF w \in PosDims THEN Ratios ELSE {Div(w, h)}
RelativeZooms(w) ==
    IF w \in PosDims THEN Zooms ELSE {Num(1), Num(2)}
PlannerBoxes(w, h) ==
    IF w \in PosDims THEN InsideBoxes(w, h) ELSE EdgeBoxes(w, h)
\* a call of the matcher: a small catalog with a small image, or the
\* application's catalog with a photo
MatcherCalls ==
    {<<w, h, list>> : w \in PosDims, h \in PosDims, list \in Catalogs}
        \cup {<<w, h, SUPPORTED_RESOLUTIONS>> : w \in PhotoDims, h \in PhotoDims}

\* the boxes given to lerpBBox, inverted ones included
LerpBoxes ==
    WithShrunk({BBox(Num(x1), Num(y1), Num(x2), Num(y2)) :
                   x1 \in 0..MaxLerpCoord, y1 \in 0..MaxLerpCoord,
                   x2 \in 0..MaxLerpCoord, y2 \in 0..MaxLerpCoord})
\* interpolants inside and outside [0, 1]: -1, 0, 1/3, 1/2, 1, 2
AlphaValues == {Frac(p, 2) : p \in {-2, 0, 1, 2, 4}} \cup {Frac(1, 3)}
Alphas == {Vector2(ax, ay) : ax \in AlphaValues, ay \in AlphaValues}
\* image sizes, a side of 0 included
Sizes == {Vector2(w, h) : w \in Dims, h \in Dims}
\* the boxes given to resizeBBox: the boxes inside the original size, a side
\* of 0 taken as 1 so that some coordinate on that axis is not 0
AtLeastOne(a) == IF IsZero(a) THEN Num(1) ELSE a
ResizeBoxes(size) ==
    WithShrunk(InsideBoxes(AtLeastOne(size[1]), AtLeastOne(size[2])))
\* the sequences of boxes given to getEnclosingBBox
BoxLists ==
    UNION {[1..n -> InsideBoxes(Num(MaxBoxes), Num(1))] : n \in 0..MaxBoxes}

\* the boxes given to cropBBox: corners anywhere in the image, inverted
\* boxes included
CropBoxes ==
    {BBox(Num(x1), Num(y1), Num(x2), Num(y2)) :
        x1 \in 0..MaxDim, y1 \in 0..MaxDim, x2 \in 0..MaxDim, y2 \in 0..MaxDim}
\* the crop regions inside the image
CropRegions ==
    {Region(Num(p[1]), Num(q[1]), Num(p[2] - p[1]), Num(q[2] - q[1])) :
        p \in Spans(MaxDim), q \in Spans(MaxDim)}
\* the lists of detected faces
FaceLists == {[i \in DOMAIN list |-> Face(list[i])] : list \in BoxLists}

---------------------------------------------------------------------------
(* The calls.                                                              *)

InitGeometry ==
    /\ fn = "none"
    /\ bbox = NoBox
    /\ imageWidth = Num(0)
    /\ imageHeight = Num(0)
    /\ whAspectRatio = Num(1)
    /\ zoom = Num(1)
    /\ supportedResolutions = <<>>
    /\ outBox = NoBox
    /\ outVec = NoVec
    /\ outRegion = NoRegion
    /\ threw = FALSE
    /\ argEndBox = NoBox
    /\ argAlpha = NoVec
    /\ argBoxSize = NoVec
    /\ argOriginalSize = NoVec
    /\ argNewSize = NoVec
    /\ argBboxes = <<>>
    /\ outWindow = NoRegion
    /\ argRegion = NoRegion
    /\ argFaces = <<>>
    /\ outFace = NoFace

InitCache ==
    /\ hookPhase = "unmounted"
    /\ items = <<>>
    /\ compareFn = "none"
    /\ compareFnRef = "none"
    /\ cachedItems = <<>>
    /\ itemsChanged = FALSE
    /\ latestOf = [k \in 1..MaxKeys |-> [key |-> 0, data |-> "none"]]

InitPager ==
    /\ pagerPhase = "new"
    /\ creationTable = {}
    /\ argUserId = "u"
    /\ argPageSize = 1
    /\ argCursor = 0
    /\ pagerFetched = <<>>
    /\ pages = <<>>
    /\ tableWrites = 0

\* fetcher.data before any response
NoData == [seq |-> 0, creations |-> <<>>, nextCursor |-> 0]

InitScroll ==
    /\ scrollPhase = "unmounted"
    /\ initNextCursor = 0
    /\ lastPage = 1
    /\ nextCursorRef = 0
    /\ isFetchingRef = FALSE
    /\ scrollCreations = <<>>
    /\ fetcherData = NoData
    /\ dataEffectPending = FALSE
    /\ inFlight = {}
    /\ submitted = <<>>
    /\ delivered = <<>>

Calls == 1..MaxCalls

\* findUnique found no record
NoMeta == [md5Hash |-> "none", fileName |-> 0]

InitUpload ==
    /\ uploadPhase = "unstarted"
    /\ uploadPc = [c \in Calls |-> "idle"]
    /\ uploadMeta = [c \in Calls |-> NoMeta]
    /\ pictureMetadata = {}
    /\ bucketFiles = {}
    /\ uploadedBy = {}
    /\ bucketDeletes = 0

\* the user of a call that has not read it
NoUser == [customerId |-> 0, email |-> "none"]

InitCustomer ==
    /\ customerPhase = "unstarted"
    /\ customerPc = [c \in Calls |-> "idle"]
    /\ customerUser = [c \in Calls |-> NoUser]
    /\ customerOut = [c \in Calls |-> 0]
    /\ userExists = TRUE
    /\ userCustomerId = 0
    /\ userEmail = "a"
    /\ stripeCustomers = {}
    /\ deletePc = "idle"
    /\ deleteCustomerId = 0
    /\ updatePc = "idle"
    /\ updateCustomerId = 0

Init ==
    /\ InitGeometry
    /\ InitCache
    /\ InitPager
    /\ InitScroll
    /\ InitUpload
    /\ InitCustomer

CallClipBBox ==
    /\ fn = "none"
    /\ \E b \in AnyBoxes, w \in Dims, h \in Dims :
        /\ fn' = "clipBBox"
        /\ bbox' = b
        /\ imageWidth' = w
        /\ imageHeight' = h
        /\ outBox' = clipBBox(b, w, h)
        /\ whAspectRatio' = Num(1)
        /\ zoom' = Num(1)
        /\ supportedResolutions' = <<>>
        /\ outVec' = NoVec
        /\ outRegion' = NoRegion
        /\ threw' = FALSE
        /\ UNCHANGED <<helperArgs, outWindow>>
        /\ UNCHANGED laterVars

\* clipBBox called on the box the last call of clipBBox returned, with the
\* same frame
CallClipBBoxAgain ==
    /\ fn = "clipBBox"
    /\ fn' = "clipBBox twice"
    /\ outBox' = clipBBox(outBox, imageWidth, imageHeight)
    /\ UNCHANGED <<bbox, imageWidth, imageHeight, whAspectRatio, zoom,
                   supportedResolutions, outVec, outRegion, threw,
                   helperArgs, outWindow>>
    /\ UNCHANGED laterVars

CallShiftCoordinates ==
    /\ fn = "none"
    /\ \E b \in AnyBoxes, w \in Dims, h \in Dims :
        /\ fn' = "shiftCoordinates"
        /\ bbox' = b
        /\ imageWidth' = w
        /\ imageHeight' = h
        /\ outBox' = shiftCoordinates(b, w, h)
        /\ whAspectRatio' = Num(1)
        /\ zoom' = Num(1)
        /\ supportedResolutions' = <<>>
        /\ outVec' = NoVec
        /\ outRegion' = NoRegion
        /\ threw' = FALSE
        /\ UNCHANGED <<helperArgs, outWindow>>
        /\ UNCHANGED laterVars

CallGetAlphaFromBBox ==
    /\ fn = "none"
    /\ \E b \in AnyBoxes, w \in PosDims, h \in PosDims :
        /\ fn' = "getAlphaFromBBox"
        /\ bbox' = b
        /\ imageWidth' = w
        /\ imageHeight' = h
        /\ outVec' = getAlphaFromBBox(b, w, h)
        /\ whAspectRatio' = Num(1)
        /\ zoom' = Num(1)
        /\ supportedResolutions' = <<>>
        /\ outBox' = NoBox
        /\ outRegion' = NoRegion
        /\ threw' = FALSE
        /\ UNCHANGED <<helperArgs, outWindow>>
        /\ UNCHANGED laterVars

CallGetMaxCropSize ==
    /\ fn = "none"
    /\ \E c \in CropCalls :
        /\ fn' = "getMaxCropSize"
        /\ imageWidth' = c[1]
        /\ imageHeight' = c[2]
        /\ whAspectRatio' = c[3]
        /\ outVec' = getMaxCropSize(c[1], c[2], c[3])
        /\ bbox' = NoBox
        /\ zoom' = Num(1)
        /\ supportedResolutions' = <<>>
        /\ outBox' = NoBox
        /\ outRegion' = NoRegion
        /\ threw' = FALSE
        /\ UNCHANGED <<helperArgs, outWindow>>
        /\ UNCHANGED laterVars

CallGetResponsiveCropRegion ==
    /\ fn = "none"
    /\ \E w \in PlannerDims :
       \E h \in PlannerHeights(w) :
       \E r \in PlannerRatios(w, h), b \in PlannerBoxes(w, h) :
        /\ fn' = "getResponsiveCropRegion"
        /\ imageWidth' = w
        /\ imageHeight' = h
        /\ whAspectRatio' = r
        /\ bbox' = b
        /\ \E crop \in {getMaxCropSize(w, h, r)} :
           \E middleCrop \in {MiddleCrop(w, h, b, crop)} :
            \* middleCrop as line 635 computes it, and the region
            \* getResponsiveCropRegion returns, which is made of it
            /\ outBox' = middleCrop
            /\ outRegion' = ResponsiveRegion(middleCrop, crop)
        /\ zoom' = Num(1)
        /\ supportedResolutions' = <<>>
        /\ outVec' = NoVec
        /\ threw' = FALSE
        /\ UNCHANGED <<helperArgs, outWindow>>
        /\ UNCHANGED laterVars

CallGetRelativeCropRegion ==
    /\ fn = "none"
    /\ \E w \in PlannerDims :
       \E h \in PlannerHeights(w), z \in RelativeZooms(w) :
       \E r \in PlannerRatios(w, h), b \in PlannerBoxes(w, h) :
        /\ fn' = "getRelativeCropRegion"
        /\ imageWidth' = w
        /\ imageHeight' = h
        /\ whAspectRatio' = r
        /\ zoom' = z
        /\ bbox' = b
        /\ \E win \in {RelativeCropWindow(w, h, r, b, z)} :
            \* the window before the return statement, and the region
            \* getRelativeCropRegion returns, which is that window rounded
            /\ outWindow' = win
            /\ outRegion' = RoundedRegion(win)
        /\ supportedResolutions' = <<>>
        /\ outBox' = NoBox
        /\ outVec' = NoVec
        /\ threw' = FALSE
        /\ UNCHANGED helperArgs
        /\ UNCHANGED laterVars

CallGetClosestSupportedResolution ==
    /\ fn = "none"
    /\ \E c \in MatcherCalls :
        /\ fn' = "getClosestSupportedResolution"
        /\ imageWidth' = c[1]
        /\ imageHeight' = c[2]
        /\ supportedResolutions' = c[3]
        /\ threw' = (Len(c[3]) = 0)
        /\ outVec' = IF Len(c[3]) = 0 THEN NoVec
                     ELSE getClosestSupportedResolution(c[1], c[2], c[3])
        /\ bbox' = NoBox
        /\ whAspectRatio' = Num(1)
        /\ zoom' = Num(1)
        /\ outBox' = NoBox
        /\ outRegion' = NoRegion
        /\ UNCHANGED <<helperArgs, outWindow>>
        /\ UNCHANGED laterVars

\* the calls of the box functions that take a box and a frame
Next ==
    \/ CallClipBBox
    \/ CallClipBBoxAgain
    \/ CallShiftCoordinates
    \/ CallGetAlphaFromBBox

Spec == Init /\ [][Next]_vars

\* the calls of getMaxCropSize and of the two crop planners
NextPlanners ==
    \/ CallGetMaxCropSize
    \/ CallGetResponsiveCropRegion
    \/ CallGetRelativeCropRegion

SpecPlanners == Init /\ [][NextPlanners]_vars

\* the calls of the resolution matcher
NextMatcher == CallGetClosestSupportedResolution

SpecMatcher == Init /\ [][NextMatcher]_vars

---------------------------------------------------------------------------
(* The calls of the box helpers that take other arguments.                  *)

CallResizeBBox ==
    /\ fn = "none"
    /\ \E originalSize \in Sizes, newSize \in Sizes :
       \E b \in ResizeBoxes(originalSize) :
        /\ fn' = "resizeBBox"
        /\ bbox' = b
        /\ argOriginalSize' = originalSize
        /\ argNewSize' = newSize
        /\ outBox' = resizeBBox(b, originalSize, newSize)
        /\ UNCHANGED <<imageWidth, imageHeight, whAspectRatio, zoom,
                       supportedResolutions, outVec, outRegion, threw,
                       argEndBox, argAlpha, argBoxSize, argBboxes, outWindow>>
        /\ UNCHANGED laterVars

CallLerpBBox ==
    /\ fn = "none"
    /\ \E startBox \in LerpBoxes, endBox \in LerpBoxes, a \in Alphas :
        /\ fn' = "lerpBBox"
        /\ bbox' = startBox
        /\ argEndBox' = endBox
        /\ argAlpha' = a
        /\ outBox' = lerpBBox(startBox, endBox, a)
        /\ UNCHANGED <<imageWidth, imageHeight, whAspectRatio, zoom,
                       supportedResolutions, outVec, outRegion, threw,
                       argBoxSize, argOriginalSize, argNewSize, argBboxes,
                       outWindow>>
        /\ UNCHANGED laterVars

CallGetEnclosingBBox ==
    /\ fn = "none"
    /\ \E list \in BoxLists :
        /\ fn' = "getEnclosingBBox"
        /\ argBboxes' = list
        /\ outBox' = getEnclosingBBox(list)
        /\ UNCHANGED <<bbox, imageWidth, imageHeight, whAspectRatio, zoom,
                       supportedResolutions, outVec, outRegion, threw,
                       argEndBox, argAlpha, argBoxSize, argOriginalSize,
                       argNewSize, outWindow>>
        /\ UNCHANGED laterVars

CallGetBBoxFromAlpha ==
    /\ fn = "none"
    /\ \E w \in Dims, h \in Dims, size \in Sizes, a \in Alphas :
        /\ fn' = "getBBoxFromAlpha"
        /\ imageWidth' = w
        /\ imageHeight' = h
        /\ argBoxSize' = size
        /\ argAlpha' = a
        /\ outBox' = getBBoxFromAlpha(w, h, size[1], size[2], a)
        /\ UNCHANGED <<bbox, whAspectRatio, zoom, supportedResolutions,
                       outVec, outRegion, threw, argEndBox, argOriginalSize,
                       argNewSize, argBboxes, outWindow>>
        /\ UNCHANGED laterVars

\* getAlphaFromBBox, then getBBoxFromAlpha with the box's width and height
\* and the alpha just returned
CallGetAlphaThenBBox ==
    /\ fn = "none"
    /\ \E w \in PosDims, h \in PosDims :
       \E b \in WithShrunk(InsideBoxes(w, h)) :
       \E a \in {getAlphaFromBBox(b, w, h)},
          size \in {Vector2(Sub(b[3], b[1]), Sub(b[4], b[2]))} :
        /\ fn' = "getAlphaFromBBox, getBBoxFromAlpha"
        /\ bbox' = b
        /\ imageWidth' = w
        /\ imageHeight' = h
        /\ outVec' = a
        /\ argBoxSize' = size
        /\ argAlpha' = a
        /\ outBox' = getBBoxFromAlpha(w, h, size[1], size[2], a)
        /\ UNCHANGED <<whAspectRatio, zoom, supportedResolutions,
                       outRegion, threw, argEndBox, argOriginalSize,
                       argNewSize, argBboxes, outWindow>>
        /\ UNCHANGED laterVars

NextHelpers ==
    \/ CallResizeBBox
    \/ CallLerpBBox
    \/ CallGetEnclosingBBox
    \/ CallGetBBoxFromAlpha
    \/ CallGetAlphaThenBBox

SpecHelpers == Init /\ [][NextHelpers]_vars

---------------------------------------------------------------------------
(* The calls of the functions on detected faces.                            *)

CallCropBBox ==
    /\ fn = "none"
    /\ \E b \in CropBoxes, region \in CropRegions :
        /\ fn' = "cropBBox"
        /\ bbox' = b
        /\ argRegion' = region
        /\ outBox' = cropBBox(b, region)
        /\ UNCHANGED <<imageWidth, imageHeight, whAspectRatio, zoom,
                       supportedResolutions, outVec, outRegion, threw,
                       helperArgs, outWindow, argFaces, outFace>>
        /\ UNCHANGED appVars

CallExtractBiggestFace ==
    /\ fn = "none"
    /\ \E faces \in FaceLists :
        /\ fn' = "extractBiggestFace"
        /\ argFaces' = faces
        /\ threw' = (Len(faces) = 0)
        /\ outFace' = IF Len(faces) = 0 THEN NoFace
                      ELSE extractBiggestFace(faces)
        /\ UNCHANGED <<bbox, imageWidth, imageHeight, whAspectRatio, zoom,
                       supportedResolutions, outBox, outVec, outRegion,
                       helperArgs, outWindow, argRegion>>
        /\ UNCHANGED appVars

NextFaces ==
    \/ CallCropBBox
    \/ CallExtractBiggestFace

SpecFaces == Init /\ [][NextFaces]_vars

---------------------------------------------------------------------------
(* useCachedState (src/unnamed/part_004).                                   *)

\* an item: its key (what keyFn returns) and the rest of its content
Item(k, d) == [key |-> k, data |-> d]
keyFn(item) == item.key
Items == {Item(k, d) : k \in 1..MaxKeys, d \in {"a", "b"}}
ItemArrays == UNION {[1..n -> Items] : n \in 0..MaxItems}
\* the compareFn values: absent, ascending by key, descending by key
CompareFns == {"none", "asc", "desc"}
\* the number compareFn(a, b) returns
Compare(cf, a, b) == IF cf = "asc" THEN a.key - b.key ELSE b.key - a.key

\* Map.prototype.set on a map given as the sequence of its values in
\* insertion order: a key already held keeps its place and takes the new
\* value, a new key goes last
MapSet(m, item) ==
    IF \E i \in 1..Len(m) : keyFn(m[i]) = keyFn(item)
    THEN [i \in 1..Len(m) |->
            IF keyFn(m[i]) = keyFn(item) THEN item ELSE m[i]]
    ELSE Append(m, item)

\* the loop of lines 34-36 from index i on
RECURSIVE NewItemsMap(_, _, _)
NewItemsMap(newItems, i, m) ==
    IF i > Len(newItems) THEN m
    ELSE NewItemsMap(newItems, i + 1, MapSet(m, newItems[i]))

\* a sorted list with x put behind every element that does not compare
\* greater than it
SortInsert(sorted, x, cf) ==
    LET n == Cardinality({i \in 1..Len(sorted) : Compare(cf, sorted[i], x) <= 0})
    IN  SubSeq(sorted, 1, n) \o <<x>> \o SubSeq(sorted, n + 1, Len(sorted))

\* Array.prototype.sort(compareFn), a stable sort, from index i on
RECURSIVE SortFrom(_, _, _, _)
SortFrom(list, i, sorted, cf) ==
    IF i > Len(list) THEN sorted
    ELSE SortFrom(list, i + 1, SortInsert(sorted, list[i], cf), cf)

\* the state updater of lines 29-44
UpdateCachedItems(prevItems, its, cf) ==
    LET newItems == prevItems \o its
        sortedItems == NewItemsMap(newItems, 1, <<>>)
    IN  IF cf # "none" THEN SortFrom(sortedItems, 1, <<>>, cf)
        ELSE sortedItems

\* history: latestOf after the array its has been passed
LatestAfter(latest, its) ==
    [k \in 1..MaxKeys |->
        LET at == {i \in 1..Len(its) : keyFn(its[i]) = k}
        IN  IF at = {} THEN latest[k]
            ELSE its[CHOOSE i \in at : \A j \in at : j <= i]]

\* the first render: useState(items), useRef(compareFn)
Mount ==
    /\ hookPhase = "unmounted"
    /\ \E its \in ItemArrays, cf \in CompareFns :
        /\ hookPhase' = "effects"
        /\ items' = its
        /\ compareFn' = cf
        /\ compareFnRef' = cf
        /\ cachedItems' = its
        /\ itemsChanged' = TRUE
        /\ latestOf' = LatestAfter(latestOf, its)
    /\ UNCHANGED notCache

\* a later render with another items array
RenderNewItems ==
    /\ hookPhase = "idle"
    /\ \E its \in ItemArrays, cf \in CompareFns :
        /\ hookPhase' = "effects"
        /\ items' = its
        /\ compareFn' = cf
        /\ itemsChanged' = TRUE
        /\ latestOf' = LatestAfter(latestOf, its)
        /\ UNCHANGED <<compareFnRef, cachedItems>>
    /\ UNCHANGED notCache

\* a later render with the same items array
RenderSameItems ==
    /\ hookPhase = "idle"
    /\ \E cf \in CompareFns :
        /\ hookPhase' = "effects"
        /\ compareFn' = cf
        /\ itemsChanged' = FALSE
        /\ UNCHANGED <<items, compareFnRef, cachedItems, latestOf>>
    /\ UNCHANGED notCache

\* the effects of the committed render, in the order they are declared:
\* lines 23-26, then lines 28-45 if items changed, with the state updater
RunEffects ==
    /\ hookPhase = "effects"
    /\ hookPhase' = "idle"
    /\ compareFnRef' = compareFn
    /\ cachedItems' = IF itemsChanged
                      THEN UpdateCachedItems(cachedItems, items, compareFnRef')
                      ELSE cachedItems
    /\ UNCHANGED <<items, compareFn, itemsChanged, latestOf>>
    /\ UNCHANGED notCache

NextCache ==
    \/ Mount
    \/ RenderNewItems
    \/ RenderSameItems
    \/ RunEffects

SpecCache == Init /\ [][NextCache]_vars

---------------------------------------------------------------------------
(* CreationPaginator (app/lib/model/creation.server.ts).                    *)

\* a row of the Creation table; ids are 1, 2, ... and createdAt is one of
\* 1..n, which several rows may share
Creation(i, u, t) == [id |-> i, userId |-> u, createdAt |-> t]
CreationTables ==
    UNION {{ {Creation(i, owner[i], time[i]) : i \in 1..n} :
                owner \in [1..n -> {"u", "v"}], time \in [1..n -> 1..n]} :
           n \in 0..MaxCreations}

\* orderBy: { createdAt: 'desc' }: the sequences of the rows with createdAt
\* never rising.  The query names no second key, so rows of the same
\* createdAt come in an order the database chooses at each query.
OrderByCreatedAtDesc(rows) ==
    {ordered \in [1..Cardinality(rows) -> rows] :
        /\ \A i \in DOMAIN ordered : \A j \in DOMAIN ordered :
               i < j => /\ ordered[i] # ordered[j]
                        /\ ordered[i].createdAt >= ordered[j].createdAt}

\* cursor: { id }: the rows from the row of the cursor on (all of them
\* without a cursor, none when the cursor's row is not among them)
FromCursor(ordered, cursor) ==
    IF cursor = 0 THEN ordered
    ELSE IF \A i \in DOMAIN ordered : ordered[i].id # cursor THEN <<>>
    ELSE SubSeq(ordered,
                CHOOSE i \in DOMAIN ordered : ordered[i].id = cursor,
                Len(ordered))

\* take: the first `take` rows
Take(list, take) ==
    SubSeq(list, 1, IF take < Len(list) THEN take ELSE Len(list))

\* prisma.creation.findMany({ where, orderBy, cursor, take }): the lists the
\* query may resolve to
getCreations(table, userId, take, cursor) ==
    {Take(FromCursor(ordered, cursor), take) :
        ordered \in OrderByCreatedAtDesc(
                       IF userId = "*" THEN table
                       ELSE {r \in table : r.userId = userId})}

prepare(table, userId, cursor, pageSize) ==
    getCreations(table, userId, pageSize + 1, cursor)

process(creations, pageSize) ==
    IF Len(creations) > pageSize
    THEN [creations |-> SubSeq(creations, 1, Len(creations) - 1),
          nextCursor |-> creations[Len(creations)].id]
    ELSE [creations |-> creations, nextCursor |-> 0]

\* prisma.creation.create({ data })
addCreation(table, creation) == table \cup {creation}

\* prisma.creation.deleteMany({ where: { userId } })
deleteCreations(table, userId) == {r \in table : r.userId # userId}

\* the table and the page size of this paging loop
StartPaging ==
    /\ pagerPhase = "new"
    /\ \E table \in CreationTables, size \in 1..MaxPageSize :
        /\ pagerPhase' = "paging"
        /\ creationTable' = table
        /\ argPageSize' = size
        /\ UNCHANGED <<argUserId, argCursor, pagerFetched, pages, tableWrites>>
    /\ UNCHANGED notPager

\* CreationPaginator(userId, cursor, pageSize).run() up to its await
\* (line 82): the query is answered; the loop is followed for MaxRuns calls
RunPrepare ==
    /\ pagerPhase = "paging"
    /\ Len(pages) < MaxRuns
    /\ \E creations \in
           prepare(creationTable, argUserId, argCursor, argPageSize) :
        pagerFetched' = creations
    /\ pagerPhase' = "fetched"
    /\ UNCHANGED <<creationTable, argUserId, argPageSize, argCursor, pages,
                   tableWrites>>
    /\ UNCHANGED notPager

\* run() after its await (line 83), the caller keeping nextCursor for its
\* next call
RunProcess ==
    /\ pagerPhase = "fetched"
    /\ pages' = Append(pages, process(pagerFetched, argPageSize).creations)
    /\ argCursor' = process(pagerFetched, argPageSize).nextCursor
    /\ pagerPhase' =
           IF process(pagerFetched, argPageSize).nextCursor = 0
           THEN "done" ELSE "paging"
    /\ pagerFetched' = <<>>
    /\ UNCHANGED <<creationTable, argUserId, argPageSize, tableWrites>>
    /\ UNCHANGED notPager

\* addCreation(creation) of some user, called while the loop is under way;
\* the new row gets an id no row had before
AddCreation ==
    /\ pagerPhase # "new"
    /\ tableWrites < MaxWrites
    /\ \E u \in {"u", "v"}, t \in 1..(MaxCreations + 1) :
        creationTable' =
            addCreation(creationTable,
                        Creation(MaxCreations + tableWrites + 1, u, t))
    /\ tableWrites' = tableWrites + 1
    /\ UNCHANGED <<pagerPhase, argUserId, argPageSize, argCursor,
                   pagerFetched, pages>>
    /\ UNCHANGED notPager

\* deleteCreations(userId), called while the loop is under way
DeleteCreations ==
    /\ pagerPhase # "new"
    /\ tableWrites < MaxWrites
    /\ \E u \in {"u", "v"} :
        creationTable' = deleteCreations(creationTable, u)
    /\ tableWrites' = tableWrites + 1
    /\ UNCHANGED <<pagerPhase, argUserId, argPageSize, argCursor,
                   pagerFetched, pages>>
    /\ UNCHANGED notPager

NextPager ==
    \/ StartPaging
    \/ RunPrepare
    \/ RunProcess
    \/ AddCreation
    \/ DeleteCreations

\* the query is answered, run() goes on after its await, and the caller
\* goes on calling run() while the cursor it got is not null
SpecPager ==
    /\ Init /\ [][NextPager]_vars
    /\ WF_vars(StartPaging) /\ WF_vars(RunPrepare) /\ WF_vars(RunProcess)

---------------------------------------------------------------------------
(* getOrUploadPictureToS3 (app/lib/model/pictureMetadata.server.ts), each   *)
(* await a step of its own.  All pictures have the md5 hash "h"; the file   *)
(* name of call c is c (generateUniqueFilename), the file of a record that  *)
(* was there before is 0.                                                   *)

\* prisma.pictureMetadata.findUnique({ where: { md5Hash } })
findUnique(table, md5Hash) ==
    IF \E m \in table : m.md5Hash = md5Hash
    THEN CHOOSE m \in table : m.md5Hash = md5Hash
    ELSE NoMeta

\* uploadFileToBucket: PutObject
uploadFileToBucket(files, fileName) == files \cup {fileName}

\* a deleteFileFromBucket that leaves the file
deleteFileFromBucket_Keeps(files, fileName) == files

\* deleteFileFromBucket: DeleteObject
deleteFileFromBucket(files, fileName) == files \ {fileName}

\* deleteFilesFromBucket: DeleteObjects; a call with as many folders as
\* file names deletes the files named, any other call throws at the
\* invariant and deletes nothing
deleteFilesFromBucket(files, folders, filenames) ==
    IF Len(folders) # Len(filenames) THEN files
    ELSE files \ {filenames[i] : i \in 1..Len(filenames)}

\* the lists of 0..MaxNames elements of S
ListsOf(S) == UNION {[1..n -> S] : n \in 0..MaxNames}

\* the lists of file names given to deleteFilesFromBucket: no name twice,
\* the names in rising order
NameLists ==
    {names \in ListsOf(0..MaxCalls) :
        \A i \in DOMAIN names : \A j \in DOMAIN names :
            i < j => names[i] < names[j]}

\* the callers: 1..n concurrent calls, with or without a record of the hash
StartUploads ==
    /\ uploadPhase = "unstarted"
    /\ \E n \in Calls, present \in BOOLEAN :
        /\ uploadPc' = [c \in Calls |-> IF c <= n THEN "find" ELSE "idle"]
        /\ pictureMetadata' =
               IF present THEN {[md5Hash |-> "h", fileName |-> 0]} ELSE {}
        /\ bucketFiles' = IF present THEN {0} ELSE {}
    /\ uploadPhase' = "running"
    /\ UNCHANGED <<uploadMeta, uploadedBy, bucketDeletes>>
    /\ UNCHANGED notUpload

\* lines 72-75
UploadFind(c) ==
    /\ uploadPc[c] = "find"
    /\ uploadMeta' = [uploadMeta EXCEPT ![c] = findUnique(pictureMetadata, "h")]
    /\ uploadPc' = [uploadPc EXCEPT ![c] =
           IF findUnique(pictureMetadata, "h") # NoMeta
           THEN "findJob" ELSE "upload"]
    /\ UNCHANGED <<uploadPhase, pictureMetadata, bucketFiles, uploadedBy,
                   bucketDeletes>>
    /\ UNCHANGED notUpload

\* lines 79-82: the record found is returned
UploadReturnFound(c) ==
    /\ uploadPc[c] = "findJob"
    /\ uploadPc' = [uploadPc EXCEPT ![c] = "returned"]
    /\ UNCHANGED <<uploadPhase, uploadMeta, pictureMetadata, bucketFiles,
                   uploadedBy, bucketDeletes>>
    /\ UNCHANGED notUpload

\* lines 86-95
UploadFile(c) ==
    /\ uploadPc[c] = "upload"
    /\ bucketFiles' = uploadFileToBucket(bucketFiles, c)
    /\ uploadedBy' = uploadedBy \cup {c}
    /\ uploadPc' = [uploadPc EXCEPT ![c] = "create"]
    /\ UNCHANGED <<uploadPhase, uploadMeta, pictureMetadata, bucketDeletes>>
    /\ UNCHANGED notUpload

\* lines 101-120: create fails on the unique md5Hash
UploadCreate(c) ==
    /\ uploadPc[c] = "create"
    /\ IF \E m \in pictureMetadata : m.md5Hash = "h"
       THEN /\ uploadPc' = [uploadPc EXCEPT ![c] = "delete"]
            /\ UNCHANGED <<pictureMetadata, uploadMeta>>
       ELSE /\ pictureMetadata' =
                   pictureMetadata \cup {[md5Hash |-> "h", fileName |-> c]}
            /\ uploadMeta' = [uploadMeta EXCEPT ![c] =
                   [md5Hash |-> "h", fileName |-> c]]
            /\ uploadPc' = [uploadPc EXCEPT ![c] = "returned"]
    /\ UNCHANGED <<uploadPhase, bucketFiles, uploadedBy, bucketDeletes>>
    /\ UNCHANGED notUpload

\* lines 121-123
UploadDelete(c) ==
    /\ uploadPc[c] = "delete"
    /\ bucketFiles' = deleteFileFromBucket(bucketFiles, c)
    /\ uploadPc' = [uploadPc EXCEPT ![c] = "threw"]
    /\ UNCHANGED <<uploadPhase, uploadMeta, pictureMetadata, uploadedBy,
                   bucketDeletes>>
    /\ UNCHANGED notUpload

\* deleteFilesFromBucket(bucket, folders, filenames) of part_000, called
\* while the uploads are under way or after them
DeleteFilesFromBucket ==
    /\ uploadPhase = "running"
    /\ bucketDeletes < MaxDeletes
    /\ \E folders \in ListsOf({"source"}), filenames \in NameLists :
        bucketFiles' = deleteFilesFromBucket(bucketFiles, folders, filenames)
    /\ bucketDeletes' = bucketDeletes + 1
    /\ UNCHANGED <<uploadPhase, uploadPc, uploadMeta, pictureMetadata,
                   uploadedBy>>
    /\ UNCHANGED notUpload

NextUpload ==
    \/ StartUploads
    \/ \E c \in Calls : UploadFind(c)
    \/ \E c \in Calls : UploadReturnFound(c)
    \/ \E c \in Calls : UploadFile(c)
    \/ \E c \in Calls : UploadCreate(c)
    \/ \E c \in Calls : UploadDelete(c)
    \/ DeleteFilesFromBucket

SpecUpload == Init /\ [][NextUpload]_vars

\* every call of getOrUploadPictureToS3 has returned or thrown
UploadsFinished ==
    /\ uploadPhase = "running"
    /\ \A c \in Calls : uploadPc[c] \in {"idle", "returned", "threw"}

---------------------------------------------------------------------------
(* getOrCreateCustomer, updateUser and deleteUser                          *)
(* (app/lib/model/user.server.ts), each await a step of its own.  The user *)
(* "u" has the email "a" at the start; the customer created by call c has  *)
(* id c, a customer that was there before has id MaxCalls + 1.             *)

Customer(id, deleted, email) ==
    [id |-> id, deleted |-> deleted, userId |-> "u", email |-> email]

\* stripe.customers.retrieve(id)
retrieve(customers, id) == CHOOSE k \in customers : k.id = id

\* stripe.customers.del(id): the customer is kept as a deleted one
del(customers, id) ==
    {IF k.id = id THEN Customer(k.id, TRUE, k.email) ELSE k : k \in customers}

\* stripe.customers.update(id, { email }) of a customer that is not deleted
update(customers, id, email) ==
    {IF k.id = id THEN Customer(k.id, k.deleted, email) ELSE k :
        k \in customers}

\* the callers: 1..n concurrent calls of getOrCreateCustomer for a user
\* without a customer, with a customer, or with a deleted customer, or for
\* a user whose record is not in the database yet (line 36), with or
\* without a call of deleteUser(userId), and with or without a call of
\* updateUser(userId, { email: "b" })
StartCustomerCalls ==
    /\ customerPhase = "unstarted"
    /\ \E n \in Calls, before \in {"none", "live", "deleted", "no user"} :
        /\ customerPc' = [c \in Calls |-> IF c <= n THEN "find" ELSE "idle"]
        /\ userExists' = (before # "no user")
        /\ userCustomerId' =
               IF before \in {"none", "no user"} THEN 0 ELSE MaxCalls + 1
        /\ stripeCustomers' =
               IF before \in {"none", "no user"} THEN {}
               ELSE {Customer(MaxCalls + 1, before = "deleted", "a")}
    /\ \E deleting \in BOOLEAN, updating \in BOOLEAN :
        /\ deletePc' = IF deleting THEN "find" ELSE "idle"
        /\ updatePc' = IF updating THEN "update" ELSE "idle"
    /\ customerPhase' = "running"
    /\ UNCHANGED <<customerUser, customerOut, userEmail, deleteCustomerId,
                   updateCustomerId>>
    /\ UNCHANGED notCustomer

\* lines 27-50: without the user the call throws the response 500
CustomerFindUser(c) ==
    /\ customerPc[c] = "find"
    /\ IF userExists
       THEN /\ customerUser' = [customerUser EXCEPT ![c] =
                   [customerId |-> userCustomerId, email |-> userEmail]]
            /\ customerPc' = [customerPc EXCEPT ![c] =
                   IF userCustomerId # 0 THEN "retrieve" ELSE "create"]
       ELSE /\ customerPc' = [customerPc EXCEPT ![c] = "threw"]
            /\ UNCHANGED customerUser
    /\ UNCHANGED <<customerPhase, customerOut, userExists, userCustomerId,
                   userEmail, stripeCustomers, deletePc, deleteCustomerId,
                   updatePc, updateCustomerId>>
    /\ UNCHANGED notCustomer

\* lines 51-61
CustomerRetrieve(c) ==
    /\ customerPc[c] = "retrieve"
    /\ IF ~retrieve(stripeCustomers, customerUser[c].customerId).deleted
       THEN /\ customerOut' =
                   [customerOut EXCEPT ![c] = customerUser[c].customerId]
            /\ customerPc' = [customerPc EXCEPT ![c] = "returned"]
       ELSE /\ customerPc' = [customerPc EXCEPT ![c] = "create"]
            /\ UNCHANGED customerOut
    /\ UNCHANGED <<customerPhase, customerUser, userExists, userCustomerId,
                   userEmail, stripeCustomers, deletePc, deleteCustomerId,
                   updatePc, updateCustomerId>>
    /\ UNCHANGED notCustomer

\* lines 64-69
CustomerCreate(c) ==
    /\ customerPc[c] = "create"
    /\ stripeCustomers' =
           stripeCustomers \cup {Customer(c, FALSE, customerUser[c].email)}
    /\ customerPc' = [customerPc EXCEPT ![c] = "update"]
    /\ UNCHANGED <<customerPhase, customerUser, customerOut, userExists,
                   userCustomerId, userEmail, deletePc, deleteCustomerId,
                   updatePc, updateCustomerId>>
    /\ UNCHANGED notCustomer

\* lines 70-73, with updateUser (lines 79-85) for data without an email:
\* prisma.user.update throws when the user is not there
CustomerUpdateUser(c) ==
    /\ customerPc[c] = "update"
    /\ IF userExists
       THEN /\ userCustomerId' = c
            /\ customerOut' = [customerOut EXCEPT ![c] = c]
            /\ customerPc' = [customerPc EXCEPT ![c] = "returned"]
       ELSE /\ customerPc' = [customerPc EXCEPT ![c] = "threw"]
            /\ UNCHANGED <<userCustomerId, customerOut>>
    /\ UNCHANGED <<customerPhase, customerUser, userExists, userEmail,
                   stripeCustomers, deletePc, deleteCustomerId, updatePc,
                   updateCustomerId>>
    /\ UNCHANGED notCustomer

\* updateUser(userId, { email: "b" }), line 80: prisma.user.update throws
\* when the user is not there
UpdateUserRecord ==
    /\ updatePc = "update"
    /\ IF userExists
       THEN /\ userEmail' = "b"
            /\ updateCustomerId' = userCustomerId
            /\ updatePc' = IF userCustomerId # 0 THEN "stripe" ELSE "returned"
       ELSE /\ updatePc' = "threw"
            /\ UNCHANGED <<userEmail, updateCustomerId>>
    /\ UNCHANGED <<customerPhase, customerPc, customerUser, customerOut,
                   userExists, userCustomerId, stripeCustomers, deletePc,
                   deleteCustomerId>>
    /\ UNCHANGED notCustomer

\* updateUser, lines 81-84: Stripe refuses to update a deleted customer
UpdateUserCustomer ==
    /\ updatePc = "stripe"
    /\ IF ~retrieve(stripeCustomers, updateCustomerId).deleted
       THEN /\ stripeCustomers' =
                   update(stripeCustomers, updateCustomerId, "b")
            /\ updatePc' = "returned"
       ELSE /\ updatePc' = "threw"
            /\ UNCHANGED stripeCustomers
    /\ UNCHANGED <<customerPhase, customerPc, customerUser, customerOut,
                   userExists, userCustomerId, userEmail, deletePc,
                   deleteCustomerId, updateCustomerId>>
    /\ UNCHANGED notCustomer

\* deleteUser, lines 92-100
DeleteUserFind ==
    /\ deletePc = "find"
    /\ deleteCustomerId' = IF userExists THEN userCustomerId ELSE 0
    /\ deletePc' =
           IF userExists /\ userCustomerId # 0 THEN "del" ELSE "delete"
    /\ UNCHANGED <<customerPhase, customerPc, customerUser, customerOut,
                   userExists, userCustomerId, userEmail, stripeCustomers,
                   updatePc, updateCustomerId>>
    /\ UNCHANGED notCustomer

\* deleteUser, lines 101-106: an error of Stripe is caught and logged
DeleteUserCustomer ==
    /\ deletePc = "del"
    /\ stripeCustomers' = del(stripeCustomers, deleteCustomerId)
    /\ deletePc' = "delete"
    /\ UNCHANGED <<customerPhase, customerPc, customerUser, customerOut,
                   userExists, userCustomerId, userEmail, deleteCustomerId,
                   updatePc, updateCustomerId>>
    /\ UNCHANGED notCustomer

\* deleteUser, line 110: prisma.user.delete throws when the user is not
\* there
DeleteUserRecord ==
    /\ deletePc = "delete"
    /\ IF userExists
       THEN /\ userExists' = FALSE
            /\ userCustomerId' = 0
            /\ deletePc' = "returned"
       ELSE /\ deletePc' = "threw"
            /\ UNCHANGED <<userExists, userCustomerId>>
    /\ UNCHANGED <<customerPhase, customerPc, customerUser, customerOut,
                   userEmail, stripeCustomers, deleteCustomerId, updatePc,
                   updateCustomerId>>
    /\ UNCHANGED notCustomer

NextCustomer ==
    \/ StartCustomerCalls
    \/ \E c \in Calls : CustomerFindUser(c)
    \/ \E c \in Calls : CustomerRetrieve(c)
    \/ \E c \in Calls : CustomerCreate(c)
    \/ \E c \in Calls : CustomerUpdateUser(c)
    \/ UpdateUserRecord
    \/ UpdateUserCustomer
    \/ DeleteUserFind
    \/ DeleteUserCustomer
    \/ DeleteUserRecord

SpecCustomer == Init /\ [][NextCustomer]_vars

\* every call of getOrCreateCustomer has returned or thrown
CustomerCallsFinished ==
    /\ customerPhase = "running"
    /\ \A c \in Calls : customerPc[c] \in {"idle", "returned", "threw"}

---------------------------------------------------------------------------
(* useInfiniteScrolling (app/lib/hooks/use-infinite-scrolling.ts).          *)

\* what /api/creations may answer to a request with cursor c: the page of
\* that cursor (written as the cursor itself) with the cursor of the next
\* page, or nothing more
Responses(c) ==
    {[creations |-> <<c>>, nextCursor |-> IF c < lastPage THEN c + 1 ELSE 0],
     [creations |-> <<>>, nextCursor |-> 0]}

\* the condition of line 64 without the test of isFetchingRef
ShouldFetch_IgnoresFlag(nearBottom) == nearBottom /\ nextCursorRef # 0

\* the condition of line 64
ShouldFetch(nearBottom) ==
    nearBottom /\ nextCursorRef # 0 /\ ~isFetchingRef

\* the first render: useRef(initNextCursor), useRef(false), useState([])
MountScrolling ==
    /\ scrollPhase = "unmounted"
    /\ \E last \in 1..MaxPages : \E init \in 0..last :
        /\ scrollPhase' = "mounted"
        /\ initNextCursor' = init
        /\ nextCursorRef' = init
        /\ lastPage' = last
    /\ UNCHANGED <<isFetchingRef, scrollCreations, fetcherData,
                   dataEffectPending, inFlight, submitted, delivered>>
    /\ UNCHANGED notScroll

\* handleScroll for a scroll event near the bottom or not
HandleScroll ==
    /\ scrollPhase = "mounted"
    /\ \E nearBottom \in BOOLEAN :
        IF ShouldFetch(nearBottom)
        THEN /\ isFetchingRef' = TRUE
             /\ inFlight' = inFlight \cup
                    {[seq |-> Len(submitted) + 1, cursor |-> nextCursorRef]}
             /\ submitted' = Append(submitted, nextCursorRef)
        ELSE UNCHANGED <<isFetchingRef, inFlight, submitted>>
    /\ UNCHANGED <<scrollPhase, initNextCursor, lastPage, nextCursorRef,
                   scrollCreations, fetcherData, dataEffectPending, delivered>>
    /\ UNCHANGED notScroll

\* a request finishes with a response: fetcher.data becomes a new object
FetchDelivers ==
    /\ \E req \in inFlight : \E resp \in Responses(req.cursor) :
        /\ inFlight' = inFlight \ {req}
        /\ fetcherData' = [seq |-> req.seq, creations |-> resp.creations,
                           nextCursor |-> resp.nextCursor]
        /\ delivered' = Append(delivered, resp)
    /\ dataEffectPending' = TRUE
    /\ UNCHANGED <<scrollPhase, initNextCursor, lastPage, nextCursorRef,
                   isFetchingRef, scrollCreations, submitted>>
    /\ UNCHANGED notScroll

\* a request finishes without a response (the network or the loader
\* failed): fetcher.data stays what it was
FetchFails ==
    /\ \E req \in inFlight : inFlight' = inFlight \ {req}
    /\ UNCHANGED <<scrollPhase, initNextCursor, lastPage, nextCursorRef,
                   isFetchingRef, scrollCreations, fetcherData,
                   dataEffectPending, submitted, delivered>>
    /\ UNCHANGED notScroll

\* the effect of lines 113-119, run because fetcher.data changed
RunDataEffect ==
    /\ dataEffectPending
    /\ dataEffectPending' = FALSE
    /\ IF fetcherData.seq # 0
       THEN /\ scrollCreations' = scrollCreations \o fetcherData.creations
            /\ nextCursorRef' = fetcherData.nextCursor
            /\ isFetchingRef' = FALSE
       ELSE UNCHANGED <<scrollCreations, nextCursorRef, isFetchingRef>>
    /\ UNCHANGED <<scrollPhase, initNextCursor, lastPage, fetcherData,
                   inFlight, submitted, delivered>>
    /\ UNCHANGED notScroll

NextScroll ==
    \/ MountScrolling
    \/ HandleScroll
    \/ FetchDelivers
    \/ FetchFails
    \/ RunDataEffect

\* every request finishes, one way or the other, and React runs the effect
\* of a changed fetcher.data
SpecScroll ==
    /\ Init /\ [][NextScroll]_vars
    /\ WF_vars(FetchDelivers \/ FetchFails)
    /\ WF_vars(RunDataEffect)

---------------------------------------------------------------------------
(* Vocabulary of the properties.                                           *)

WellFormed(b) == Le(b[1], b[3]) /\ Le(b[2], b[4])
BoxWidth(b) == Sub(b[3], b[1])
BoxHeight(b) == Sub(b[4], b[2])
InsideFrame(b, w, h) ==
    /\ Le(Num(0), b[1]) /\ Le(b[1], w) /\ Le(Num(0), b[3]) /\ Le(b[3], w)
    /\ Le(Num(0), b[2]) /\ Le(b[2], h) /\ Le(Num(0), b[4]) /\ Le(b[4], h)
RegionInsideImage(g, w, h) ==
    /\ Le(Num(0), g.left) /\ Le(Num(0), g.top)
    /\ Le(Add(g.left, g.width), w) /\ Le(Add(g.top, g.height), h)
\* no element occurs twice in the sequence
NoRepeat(list) ==
    \A i \in 1..Len(list) : \A j \in 1..Len(list) : list[i] = list[j] => i = j
\* the concatenation of a sequence of sequences
RECURSIVE Concat(_)
Concat(lists) ==
    IF lists = <<>> THEN <<>> ELSE Head(lists) \o Concat(Tail(lists))
\* the creations of argUserId
OwnCreations == {r \in creationTable : r.userId = argUserId}
\* the list goes from the newest creation to the oldest
NewestFirst(list) ==
    \A i \in 1..Len(list) : \A j \in i..Len(list) :
        list[i].createdAt >= list[j].createdAt
\* the list is in the order of the comparator cf
IsSortedBy(list, cf) ==
    \A i \in 1..Len(list) : \A j \in i..Len(list) :
        Compare(cf, list[i], list[j]) <= 0
\* the list holds one entry for every key seen, and that entry is the item
\* of the most recent items array holding the key
OneLatestEntryPerKey(list) ==
    /\ \A i \in 1..Len(list) : \A j \in 1..Len(list) :
        keyFn(list[i]) = keyFn(list[j]) => i = j
    /\ {keyFn(list[i]) : i \in 1..Len(list)}
         = {k \in 1..MaxKeys : latestOf[k].key = k}
    /\ \A i \in 1..Len(list) : list[i] = latestOf[keyFn(list[i])]
\* box b lies within the region g / shares no interior point with it
InsideRegion(b, g) ==
    /\ Le(g.left, b[1]) /\ Le(b[3], Add(g.left, g.width))
    /\ Le(g.top, b[2]) /\ Le(b[4], Add(g.top, g.height))
OutsideRegion(b, g) ==
    \/ Le(b[3], g.left) \/ Le(Add(g.left, g.width), b[1])
    \/ Le(b[4], g.top) \/ Le(Add(g.top, g.height), b[2])
\* the least / greatest of a non-empty set of numbers
Least(S) == CHOOSE m \in S : \A x \in S : Le(m, x)
Greatest(S) == CHOOSE m \in S : \A x \in S : Le(x, m)
\* box inner lies within box outer
Contains(outer, inner) ==
    /\ Le(outer[1], inner[1]) /\ Le(outer[2], inner[2])
    /\ Le(inner[3], outer[3]) /\ Le(inner[4], outer[4])
\* the sequence list taken in the order p (a permutation of its indices)
Reordered(list, p) == [i \in 1..Len(list) |-> list[p[i]]]
\* 2^-50, four units in the last place of a number in [1, 2)
Tolerance == Double(1, <<1>>, -50)
\* the absolute value of a number
Magnitude(a) == Double(a.sign * a.sign, a.mant, a.exp)
\* a and b differ by rounding error only: by no more than 2^-50 times scale
Near(a, b, scale) ==
    Le(Magnitude(Sub(a, b)), Mul(Tolerance, Magnitude(scale)))
\* the number is an integer
IsInteger(a) == IsFinite(a) /\ a.exp >= 0
\* JavaScript's === on every coordinate of two boxes / field of two Regions
SameBox(a, b) == \A i \in 1..4 : Same(a[i], b[i])
SameRegion(g, k) ==
    /\ Same(g.left, k.left) /\ Same(g.top, k.top)
    /\ Same(g.width, k.width) /\ Same(g.height, k.height)
\* both components of the interpolant lie in [0, 1]
UnitAlpha(a) ==
    /\ Le(Num(0), a[1]) /\ Le(a[1], Num(1))
    /\ Le(Num(0), a[2]) /\ Le(a[2], Num(1))
\* the centre of the region of interest is the centre of the image
CentredIn(b, w, h) == Same(Add(b[1], b[3]), w) /\ Same(Add(b[2], b[4]), h)
\* the centre point (left + width/2, top + height/2) of a Region
RegionCentre(g) ==
    Vector2(Add(g.left, Div(g.width, Num(2))),
            Add(g.top, Div(g.height, Num(2))))
\* g is the Region one with both sides halved around the same centre
HalfOf(g, one) ==
    /\ Same(Mul(Num(2), g.width), one.width)
    /\ Same(Mul(Num(2), g.height), one.height)
    /\ Same(RegionCentre(g)[1], RegionCentre(one)[1])
    /\ Same(RegionCentre(g)[2], RegionCentre(one)[2])
\* the aspect ratio of a catalog entry
AspectOf(res) == Div(res[1], res[2])
\* Aspect ratios and distances as exact fractions.  The ratio of the entry
\* res is to the image's ratio as res[1] * imageHeight is to
\* res[2] * imageWidth; these products of sides are computed without
\* rounding, and so are the products of two of them.
OverImage(res) == Mul(res[1], imageHeight)
UnderImage(res) == Mul(res[2], imageWidth)
\* the entry has the image's ratio / a smaller ratio than the image
HasImageRatio(res) == Same(OverImage(res), UnderImage(res))
NarrowerThanImage(res) == Lt(OverImage(res), UnderImage(res))
\* the ratio of res is at most that of other
NotWider(res, other) == Le(Mul(res[1], other[2]), Mul(other[1], res[2]))
\* the distance max(ar, arC) / min(ar, arC) of res is at most that of other
NoFarther(res, other) ==
    Le(Mul(Max(OverImage(res), UnderImage(res)),
           Min(OverImage(other), UnderImage(other))),
       Mul(Max(OverImage(other), UnderImage(other)),
           Min(OverImage(res), UnderImage(res))))
\* the catalog positions at minimal distance from the image's aspect ratio
Closest ==
    {i \in 1..Len(supportedResolutions) :
        \A j \in 1..Len(supportedResolutions) :
            NoFarther(supportedResolutions[i], supportedResolutions[j])}
FirstOf(S) == CHOOSE i \in S : \A j \in S : i <= j
Matched == fn = "getClosestSupportedResolution" /\ ~threw

---------------------------------------------------------------------------
(* C1 *)

\* C1: clipBBox returns a well-formed box (x2 >= x1, y2 >= y1) for every
\* input box, inverted ones and boxes outside the frame included, and every
\* frame of width, height >= 0.
C1_ClipWellFormedForEveryBox ==
    fn = "clipBBox" => WellFormed(outBox)

---------------------------------------------------------------------------
(* C2 *)

\* C2: among several catalog entries at the same minimal distance from the
\* image's aspect ratio, getClosestSupportedResolution returns the one that
\* comes first in the catalog's iteration order.
C2_TieFirstWins ==
    Matched => outVec = supportedResolutions[FirstOf(Closest)]

---------------------------------------------------------------------------
(* C3 *)

\* C3: for a non-empty catalog and a positive image size the matcher returns
\* a catalog entry whose distance max(ar,arC)/min(ar,arC) is less than or
\* equal to that of every other entry; an entry of exactly the image's ratio
\* is returned when there is one, the widest ratio when ar exceeds every
\* catalog ratio, and (768,512) for a 1500x500 photo against the
\* application's catalog.  Distances and ratios are compared as the exact
\* fractions they stand for.
C3_ClosestIsMinimal ==
    Matched =>
        /\ \E i \in 1..Len(supportedResolutions) :
               outVec = supportedResolutions[i]
        /\ \A j \in 1..Len(supportedResolutions) :
               NoFarther(outVec, supportedResolutions[j])
        /\ (\E j \in 1..Len(supportedResolutions) :
                HasImageRatio(supportedResolutions[j]))
               => HasImageRatio(outVec)
        /\ (\A j \in 1..Len(supportedResolutions) :
                NarrowerThanImage(supportedResolutions[j]))
               => \A j \in 1..Len(supportedResolutions) :
                      NotWider(supportedResolutions[j], outVec)
        /\ (/\ supportedResolutions = SUPPORTED_RESOLUTIONS
            /\ imageWidth = Num(3 * PhotoUnit)
            /\ imageHeight = Num(PhotoUnit))
               => outVec = SUPPORTED_RESOLUTIONS[1]

\* the image is wider than every entry of a catalog of two ratios that are
\* no binary fractions, and the wider entry, which stands first, was returned
C3_Witness ==
    /\ Matched
    /\ Len(supportedResolutions) = 2
    /\ \A j \in 1..Len(supportedResolutions) :
           /\ NarrowerThanImage(supportedResolutions[j])
           /\ AspectOf(supportedResolutions[j]).exp < -50
    /\ ~NotWider(supportedResolutions[1], supportedResolutions[2])
    /\ outVec = supportedResolutions[1]

---------------------------------------------------------------------------
(* C4 *)

\* C4: the Region of getResponsiveCropRegion, and of getRelativeCropRegion
\* with any zoom, has width = imageWidth or height = imageHeight.
C4_OneSideFullAnyZoom ==
    fn \in {"getResponsiveCropRegion", "getRelativeCropRegion"} =>
        \/ Same(outRegion.width, imageWidth)
        \/ Same(outRegion.height, imageHeight)

---------------------------------------------------------------------------
(* C5 *)

\* C5: the rounded Region of getResponsiveCropRegion lies inside the image
\* for every region of interest inside the image.
C5_ResponsiveRegionInsideImage ==
    fn = "getResponsiveCropRegion" =>
        RegionInsideImage(outRegion, imageWidth, imageHeight)

---------------------------------------------------------------------------
(* C6 *)

\* C6: the rounded Region of getRelativeCropRegion lies inside the image for
\* every zoom >= 1 and every region of interest inside the image.
C6_RelativeRegionInsideImage ==
    fn = "getRelativeCropRegion" /\ Le(Num(1), zoom) =>
        RegionInsideImage(outRegion, imageWidth, imageHeight)

---------------------------------------------------------------------------
(* C7 *)

\* C7: getAlphaFromBBox returns 0 for alphaX when the box is as wide as the
\* image, and 0 for alphaY when it is as tall as the image.
C7_AlphaZeroWhenBoxFillsAxis ==
    fn = "getAlphaFromBBox" =>
        /\ BoxWidth(bbox) = imageWidth => outVec[1] = Num(0)
        /\ BoxHeight(bbox) = imageHeight => outVec[2] = Num(0)

---------------------------------------------------------------------------
(* C8 *)

\* C8: for a well-formed box no wider and no taller than the image,
\* shiftCoordinates returns a box of the same width and height inside the
\* frame, and the input itself when that is already inside the frame.
C8_ShiftKeepsSizeInsideFrame ==
    /\ fn = "shiftCoordinates"
    /\ WellFormed(bbox)
    /\ Le(BoxWidth(bbox), imageWidth)
    /\ Le(BoxHeight(bbox), imageHeight)
    => /\ BoxWidth(outBox) = BoxWidth(bbox)
       /\ BoxHeight(outBox) = BoxHeight(bbox)
       /\ InsideFrame(outBox, imageWidth, imageHeight)
       /\ InsideFrame(bbox, imageWidth, imageHeight) => outBox = bbox

\* a box of positive size overrunning the left and the bottom edge was moved
C8_Witness ==
    /\ fn = "shiftCoordinates"
    /\ WellFormed(bbox)
    /\ Le(BoxWidth(bbox), imageWidth)
    /\ Le(BoxHeight(bbox), imageHeight)
    /\ Gt(BoxWidth(bbox), Num(0))
    /\ Gt(BoxHeight(bbox), Num(0))
    /\ Lt(bbox[1], Num(0))
    /\ Gt(bbox[4], imageHeight)
    /\ outBox[1] = Num(0)
    /\ outBox[4] = imageHeight

---------------------------------------------------------------------------
(* C9 *)

\* C9 as stated: called with a box wider than imageWidth or taller than
\* imageHeight, shiftCoordinates fails with a precondition error.
C9_OversizeBoxRejected ==
    /\ fn = "shiftCoordinates"
    /\ Gt(BoxWidth(bbox), imageWidth) \/ Gt(BoxHeight(bbox), imageHeight)
    => threw

\* C9, amended: called with a box wider than imageWidth (taller than
\* imageHeight), shiftCoordinates raises no error and returns a box of the
\* same width (height) whose x2 is imageWidth and whose x1 is negative
\* (whose y2 is imageHeight and whose y1 is negative).
C9_OversizeBoxHangsOut ==
    fn = "shiftCoordinates" =>
        /\ Gt(BoxWidth(bbox), imageWidth) =>
               /\ ~threw
               /\ outBox[3] = imageWidth
               /\ BoxWidth(outBox) = BoxWidth(bbox)
               /\ Lt(outBox[1], Num(0))
        /\ Gt(BoxHeight(bbox), imageHeight) =>
               /\ ~threw
               /\ outBox[4] = imageHeight
               /\ BoxHeight(outBox) = BoxHeight(bbox)
               /\ Lt(outBox[2], Num(0))

\* a box wider than the image that started left of the frame
C9_Witness ==
    /\ fn = "shiftCoordinates"
    /\ Gt(imageWidth, Num(0))
    /\ Gt(BoxWidth(bbox), imageWidth)
    /\ Lt(bbox[1], Num(0))
    /\ ~threw
    /\ outBox[3] = imageWidth
    /\ Lt(outBox[1], Num(0))

---------------------------------------------------------------------------
(* C10 *)

\* C10 as stated: getMaxCropSize returns (w, h) with w / h = r exactly,
\* w <= imageWidth, h <= imageHeight and w = imageWidth or h = imageHeight;
\* the width and height of both planners' Regions at zoom 1 are the
\* roundings of that pair and do not exceed the image size.
C10_MaxCropSizeExactRatio ==
    /\ fn = "getMaxCropSize" =>
           /\ Same(Div(outVec[1], outVec[2]), whAspectRatio)
           /\ Le(outVec[1], imageWidth)
           /\ Le(outVec[2], imageHeight)
           /\ Same(outVec[1], imageWidth) \/ Same(outVec[2], imageHeight)
    /\ \/ fn = "getResponsiveCropRegion"
       \/ fn = "getRelativeCropRegion" /\ Same(zoom, Num(1))
       => /\ Same(outRegion.width,
                  Round(getMaxCropSize(imageWidth, imageHeight,
                                       whAspectRatio)[1]))
          /\ Same(outRegion.height,
                  Round(getMaxCropSize(imageWidth, imageHeight,
                                       whAspectRatio)[2]))
          /\ Le(outRegion.width, imageWidth)
          /\ Le(outRegion.height, imageHeight)

\* C10, amended: getMaxCropSize returns (w, h) with w / h within 2^-50 * r
\* of r (the product or quotient that gives the cut side is rounded),
\* w <= imageWidth, h <= imageHeight or within 2^-50 * imageHeight above it,
\* and w = imageWidth or h = imageHeight; for an image of integer sides the
\* width and height of both planners' Regions at zoom 1 are the roundings
\* of that pair and do not exceed the image size.
C10_MaxCropSizeIsMaximal ==
    /\ fn = "getMaxCropSize" =>
           /\ Near(Div(outVec[1], outVec[2]), whAspectRatio, whAspectRatio)
           /\ Le(outVec[1], imageWidth)
           /\ \/ Le(outVec[2], imageHeight)
              \/ Near(outVec[2], imageHeight, imageHeight)
           /\ Same(outVec[1], imageWidth) \/ Same(outVec[2], imageHeight)
    /\ \/ fn = "getResponsiveCropRegion"
       \/ fn = "getRelativeCropRegion" /\ Same(zoom, Num(1))
       => /\ Same(outRegion.width,
                  Round(getMaxCropSize(imageWidth, imageHeight,
                                       whAspectRatio)[1]))
          /\ Same(outRegion.height,
                  Round(getMaxCropSize(imageWidth, imageHeight,
                                       whAspectRatio)[2]))
          /\ Le(outRegion.width, imageWidth)
          /\ Le(outRegion.height, imageHeight)

\* an image asked for at its own ratio kept its width, and the quotient
\* that gives the height came out above the image's height
C10_Witness ==
    /\ fn = "getMaxCropSize"
    /\ whAspectRatio = Div(imageWidth, imageHeight)
    /\ outVec[1] = imageWidth
    /\ Gt(outVec[2], imageHeight)
    /\ Near(outVec[2], imageHeight, imageHeight)

---------------------------------------------------------------------------
(* C11 *)

\* C11 as stated: for a region of interest centred in the image, the Region
\* returned with zoom = 2 has exactly half the width and height of the
\* Region returned with zoom = 1, and the same centre point.
C11_ZoomTwoHalvesReturnedRegion ==
    fn = "getRelativeCropRegion" /\ Same(zoom, Num(2))
        /\ CentredIn(bbox, imageWidth, imageHeight) =>
        HalfOf(outRegion,
               getRelativeCropRegion(imageWidth, imageHeight, whAspectRatio,
                                     bbox, Num(1)))

\* C11, amended: for a region of interest centred in the image, the crop
\* window of zoom = 2 before Math.round has exactly half the width and
\* height of the window of zoom = 1, and the centre points of the two
\* windows are within 2^-50 * imageWidth and 2^-50 * imageHeight of each
\* other.
C11_ZoomTwoHalvesWindow ==
    fn = "getRelativeCropRegion" /\ Same(zoom, Num(2))
        /\ CentredIn(bbox, imageWidth, imageHeight) =>
        LET one == RelativeCropWindow(imageWidth, imageHeight, whAspectRatio,
                                      bbox, Num(1))
        IN  /\ Same(Mul(Num(2), outWindow.width), one.width)
            /\ Same(Mul(Num(2), outWindow.height), one.height)
            /\ Near(RegionCentre(outWindow)[1], RegionCentre(one)[1],
                    imageWidth)
            /\ Near(RegionCentre(outWindow)[2], RegionCentre(one)[2],
                    imageHeight)

\* zoom = 2 on a centred region of interest gave a window of width 3/2
\* around the image's centre, which the return statement rounded to 2
C11_Witness ==
    /\ fn = "getRelativeCropRegion" /\ Same(zoom, Num(2))
    /\ CentredIn(bbox, imageWidth, imageHeight)
    /\ outWindow.width = Frac(3, 2)
    /\ RegionCentre(outWindow)
         = Vector2(Div(imageWidth, Num(2)), Div(imageHeight, Num(2)))
    /\ outRegion.width = Num(2)

---------------------------------------------------------------------------
(* C12 *)

\* C12: with zoom = 1 and whAspectRatio = imageWidth / imageHeight,
\* getRelativeCropRegion returns left 0, top 0, width imageWidth and height
\* imageHeight wherever the region of interest lies (the numbers compared as
\* === compares them: a left or top of -0 is 0).
C12_OwnRatioNoZoomIsWholeImage ==
    fn = "getRelativeCropRegion" /\ Same(zoom, Num(1))
        /\ Same(whAspectRatio, Div(imageWidth, imageHeight)) =>
        /\ Same(outRegion.left, Num(0))
        /\ Same(outRegion.top, Num(0))
        /\ Same(outRegion.width, imageWidth)
        /\ Same(outRegion.height, imageHeight)

\* an image whose own ratio is no binary fraction was asked for at that
\* ratio, with the region of interest off-centre; the window's top came out
\* a rounding error away from 0, and the image came back whole
C12_Witness ==
    /\ fn = "getRelativeCropRegion" /\ Same(zoom, Num(1))
    /\ whAspectRatio = Div(imageWidth, imageHeight)
    /\ whAspectRatio.exp < -50
    /\ ~CentredIn(bbox, imageWidth, imageHeight)
    /\ ~IsZero(outWindow.top)
    /\ IsZero(outRegion.left) /\ IsZero(outRegion.top)
    /\ outRegion.width = imageWidth /\ outRegion.height = imageHeight

---------------------------------------------------------------------------
(* C13 *)

\* C13: for every zoom value the returned width and height are non-negative
\* and not larger than those returned with zoom = 1, and for 0 < zoom <= 1
\* the Region is the zoom = 1 Region.
C13_ZoomNeverWidensAnyZoom ==
    fn = "getRelativeCropRegion" =>
        LET one == getRelativeCropRegion(imageWidth, imageHeight,
                                         whAspectRatio, bbox, Num(1))
        IN  /\ Le(Num(0), outRegion.width) /\ Le(outRegion.width, one.width)
            /\ Le(Num(0), outRegion.height)
            /\ Le(outRegion.height, one.height)
            /\ Lt(Num(0), zoom) /\ Le(zoom, Num(1)) =>
                   SameRegion(outRegion, one)

---------------------------------------------------------------------------
(* C14 *)

\* C14 as stated: before Math.round and for every zoom >= 1, the centre
\* (cx, cy) of the region of interest sits at the same fraction of the crop
\* window as of the image: (cx - left) / width = cx / imageWidth and
\* (cy - top) / height = cy / imageHeight.
C14_CentreFractionExact ==
    fn = "getRelativeCropRegion" /\ Le(Num(1), zoom) =>
        LET cx == Div(Add(bbox[1], bbox[3]), Num(2))
            cy == Div(Add(bbox[2], bbox[4]), Num(2))
        IN  /\ Same(Div(Sub(cx, outWindow.left), outWindow.width),
                    Div(cx, imageWidth))
            /\ Same(Div(Sub(cy, outWindow.top), outWindow.height),
                    Div(cy, imageHeight))

\* C14, amended: before Math.round and for every zoom >= 1, the centre
\* (cx, cy) of the region of interest sits at the same fraction of the crop
\* window as of the image up to the rounding of the arithmetic: cx - left is
\* within 2^-50 * imageWidth of (cx / imageWidth) * width, and cy - top
\* within 2^-50 * imageHeight of (cy / imageHeight) * height.
C14_CentreKeepsItsFraction ==
    fn = "getRelativeCropRegion" /\ Le(Num(1), zoom) =>
        LET cx == Div(Add(bbox[1], bbox[3]), Num(2))
            cy == Div(Add(bbox[2], bbox[4]), Num(2))
        IN  /\ Near(Sub(cx, outWindow.left),
                    Mul(Div(cx, imageWidth), outWindow.width), imageWidth)
            /\ Near(Sub(cy, outWindow.top),
                    Mul(Div(cy, imageHeight), outWindow.height), imageHeight)

\* a zoomed-in window that is not square kept an off-centre region of
\* interest at its fraction of the image
C14_Witness ==
    /\ fn = "getRelativeCropRegion" /\ Lt(Num(1), zoom)
    /\ outWindow.width # outWindow.height
    /\ ~CentredIn(bbox, imageWidth, imageHeight)
    /\ Lt(Num(0), bbox[1]) /\ Lt(Num(0), bbox[2])
    /\ Div(Sub(Div(Add(bbox[2], bbox[4]), Num(2)), outWindow.top),
           outWindow.height) = Div(bbox[2], imageHeight)
    /\ bbox[2] = bbox[4]

---------------------------------------------------------------------------
(* C15 *)

\* C15: clipBBox is idempotent: clipping the box clipBBox returned, with the
\* same frame (w, h >= 0), returns the box clipBBox returned.
C15_ClipIdempotent ==
    fn = "clipBBox twice" =>
        outBox = clipBBox(bbox, imageWidth, imageHeight)

\* a box reaching over the right and bottom edges of a positive frame was
\* cut by the first clipBBox and left alone by the second
C15_Witness ==
    /\ fn = "clipBBox twice"
    /\ Gt(imageWidth, Num(0)) /\ Gt(imageHeight, Num(0))
    /\ Lt(bbox[1], imageWidth) /\ Lt(bbox[2], imageHeight)
    /\ Gt(bbox[3], imageWidth) /\ Gt(bbox[4], imageHeight)
    /\ outBox = BBox(bbox[1], bbox[2], imageWidth, imageHeight)
    /\ outBox # bbox

---------------------------------------------------------------------------
(* C16 *)

\* C16 as stated: lerpBBox(a, b, (0,0)) = a and lerpBBox(a, b, (1,1)) = b;
\* an alpha outside [0, 1] is accepted and extrapolates linearly; alpha[0]
\* is applied to both x coordinates and alpha[1] to both y coordinates.
C16_LerpEndsExact ==
    fn = "lerpBBox" =>
        /\ ~threw
        /\ argAlpha = Vector2(Num(0), Num(0)) => SameBox(outBox, bbox)
        /\ argAlpha = Vector2(Num(1), Num(1)) => SameBox(outBox, argEndBox)
        /\ \A i \in {1, 3} :
            Same(Sub(outBox[i], bbox[i]),
                 Mul(argAlpha[1], Sub(argEndBox[i], bbox[i])))
        /\ \A i \in {2, 4} :
            Same(Sub(outBox[i], bbox[i]),
                 Mul(argAlpha[2], Sub(argEndBox[i], bbox[i])))

\* C16, amended: lerpBBox(a, b, (0,0)) = a; lerpBBox(a, b, (1,1)) is b when
\* the coordinates of a and b are integers, and otherwise within rounding
\* error of b (2^-50 times the larger of |a[i]| and |b[i]|); an alpha
\* outside [0, 1] is accepted and extrapolates linearly up to rounding
\* error; alpha[0] is applied to both x coordinates and alpha[1] to both y
\* coordinates.
C16_LerpEndsAndExtrapolation ==
    fn = "lerpBBox" =>
        /\ ~threw
        /\ argAlpha = Vector2(Num(0), Num(0)) => SameBox(outBox, bbox)
        /\ argAlpha = Vector2(Num(1), Num(1)) =>
            /\ \A i \in 1..4 :
                Near(outBox[i], argEndBox[i],
                     Max(Magnitude(bbox[i]), Magnitude(argEndBox[i])))
            /\ (\A i \in 1..4 : IsInteger(bbox[i]) /\ IsInteger(argEndBox[i]))
                   => SameBox(outBox, argEndBox)
        /\ \A i \in {1, 3} :
            Near(Sub(outBox[i], bbox[i]),
                 Mul(argAlpha[1], Sub(argEndBox[i], bbox[i])),
                 Max(Magnitude(bbox[i]), Magnitude(outBox[i])))
        /\ \A i \in {2, 4} :
            Near(Sub(outBox[i], bbox[i]),
                 Mul(argAlpha[2], Sub(argEndBox[i], bbox[i])),
                 Max(Magnitude(bbox[i]), Magnitude(outBox[i])))

\* alpha = (2, -1) took the x coordinates past endBox and the y coordinates
\* back before startBox
C16_Witness ==
    /\ fn = "lerpBBox"
    /\ argAlpha = Vector2(Num(2), Num(-1))
    /\ bbox = BBox(Num(0), Num(0), Num(0), Num(0))
    /\ argEndBox = BBox(Num(1), Num(1), Num(1), Num(1))
    /\ outBox = BBox(Num(2), Num(-1), Num(2), Num(-1))

---------------------------------------------------------------------------
(* C17 *)

\* C17 as stated: resizeBBox(b, s, s) = b for every box b and every size s.
C17_ResizeSameSizeAnySize ==
    fn = "resizeBBox" /\ argNewSize = argOriginalSize => SameBox(outBox, bbox)

\* C17, amended: resizeBBox(b, s, s) returns, on an axis where the side of s
\* is not 0, each coordinate of b within rounding error of itself (2^-50
\* times its absolute value), and the coordinate itself when it is an
\* integer; on an axis where the side of s is 0 it returns NaN for both
\* coordinates.
C17_ResizeSameSizeNonZero ==
    fn = "resizeBBox" /\ argNewSize = argOriginalSize =>
        \A axis \in {1, 2} : \A i \in {axis, axis + 2} :
            IF IsZero(argOriginalSize[axis]) THEN IsNaN(outBox[i])
            ELSE /\ Near(outBox[i], bbox[i], bbox[i])
                 /\ IsInteger(bbox[i]) => Same(outBox[i], bbox[i])

\* a box off the pixel grid came back from a resize between equal sizes
\* with one coordinate a rounding error away from itself
C17_Witness ==
    /\ fn = "resizeBBox" /\ argNewSize = argOriginalSize
    /\ Lt(Num(0), argOriginalSize[1]) /\ Lt(Num(0), argOriginalSize[2])
    /\ Lt(bbox[1], bbox[3]) /\ Lt(bbox[2], bbox[4])
    /\ \E i \in 1..4 : ~Same(outBox[i], bbox[i])
    /\ \A i \in 1..4 : Near(outBox[i], bbox[i], bbox[i])

---------------------------------------------------------------------------
(* C18 *)

\* C18: getEnclosingBBox returns the least x1, the least y1, the greatest x2
\* and the greatest y2 of its inputs, whatever their order, so the result
\* contains every input; for the empty sequence it returns
\* (+Infinity, +Infinity, -Infinity, -Infinity) and raises no error.
C18_EnclosingIsMinMax ==
    fn = "getEnclosingBBox" =>
        /\ ~threw
        /\ argBboxes = <<>> =>
            outBox = BBox(Infinity, Infinity, NegInfinity, NegInfinity)
        /\ argBboxes # <<>> =>
            LET I == 1..Len(argBboxes)
            IN  /\ outBox[1] = Least({argBboxes[i][1] : i \in I})
                /\ outBox[2] = Least({argBboxes[i][2] : i \in I})
                /\ outBox[3] = Greatest({argBboxes[i][3] : i \in I})
                /\ outBox[4] = Greatest({argBboxes[i][4] : i \in I})
        /\ \A i \in 1..Len(argBboxes) : Contains(outBox, argBboxes[i])
        /\ \A p \in Permutations(1..Len(argBboxes)) :
            getEnclosingBBox(Reordered(argBboxes, p)) = outBox

\* two boxes side by side, neither inside the other, the right one first,
\* were enclosed by a box that is neither of them
C18_Witness ==
    /\ fn = "getEnclosingBBox"
    /\ Len(argBboxes) = 2
    /\ argBboxes[1] = BBox(Num(1), Num(1), Num(2), Num(1))
    /\ argBboxes[2] = BBox(Num(0), Num(0), Num(1), Num(0))
    /\ outBox = BBox(Num(0), Num(0), Num(2), Num(1))

---------------------------------------------------------------------------
(* C19 *)

\* C19 as stated: for a well-formed box b inside a W x H image, narrower
\* than W and lower than H, getBBoxFromAlpha(W, H, width(b), height(b),
\* getAlphaFromBBox(b, W, H)) = b.
C19_RoundTripExact ==
    fn = "getAlphaFromBBox, getBBoxFromAlpha"
        /\ WellFormed(bbox) /\ InsideFrame(bbox, imageWidth, imageHeight)
        /\ Lt(BoxWidth(bbox), imageWidth)
        /\ Lt(BoxHeight(bbox), imageHeight) =>
        SameBox(outBox, bbox)

\* C19, amended: for a well-formed box b inside a W x H image, narrower
\* than W and lower than H, getBBoxFromAlpha(W, H, width(b), height(b),
\* getAlphaFromBBox(b, W, H)) is b up to rounding error: its x coordinates
\* are within 2^-50 * W and its y coordinates within 2^-50 * H of those of b.
C19_BBoxFromAlphaInvertsAlphaFromBBox ==
    fn = "getAlphaFromBBox, getBBoxFromAlpha"
        /\ WellFormed(bbox) /\ InsideFrame(bbox, imageWidth, imageHeight)
        /\ Lt(BoxWidth(bbox), imageWidth)
        /\ Lt(BoxHeight(bbox), imageHeight) =>
        /\ \A i \in {1, 3} : Near(outBox[i], bbox[i], imageWidth)
        /\ \A i \in {2, 4} : Near(outBox[i], bbox[i], imageHeight)

\* a box of positive area touching no edge of the image was encoded as an
\* alpha strictly between 0 and 1 and decoded to itself
C19_Witness ==
    /\ fn = "getAlphaFromBBox, getBBoxFromAlpha"
    /\ Lt(Num(0), bbox[1]) /\ Lt(bbox[1], bbox[3]) /\ Lt(bbox[3], imageWidth)
    /\ Lt(Num(0), bbox[2]) /\ Lt(bbox[2], bbox[4]) /\ Lt(bbox[4], imageHeight)
    /\ outVec = Vector2(Frac(1, 2), Frac(1, 2))
    /\ argBoxSize = Vector2(Num(1), Num(1))
    /\ outBox = bbox

---------------------------------------------------------------------------
(* C20 *)

\* C20: for every image size, every non-negative box width and height and
\* every alpha with both components in [0, 1], the box getBBoxFromAlpha
\* returns lies inside the image and has the requested width and height.
C20_BBoxFromAlphaInsideAnyBoxSize ==
    fn = "getBBoxFromAlpha" /\ UnitAlpha(argAlpha) =>
        /\ WellFormed(outBox)
        /\ InsideFrame(outBox, imageWidth, imageHeight)
        /\ Same(BoxWidth(outBox), argBoxSize[1])
        /\ Same(BoxHeight(outBox), argBoxSize[2])

---------------------------------------------------------------------------
(* C21 *)

\* C21: cropBBox(bbox, region) is the box translated by (-left, -top) and
\* clipped to the frame (width, height): every coordinate of the result lies
\* in [0, width] / [0, height], a well-formed box wholly inside the region
\* keeps its width and height, and a well-formed box wholly outside the
\* region yields a box of area 0.
C21_CropIsTranslateThenClip ==
    fn = "cropBBox" =>
        /\ outBox = clipBBox(BBox(Sub(bbox[1], argRegion.left),
                                  Sub(bbox[2], argRegion.top),
                                  Sub(bbox[3], argRegion.left),
                                  Sub(bbox[4], argRegion.top)),
                             argRegion.width, argRegion.height)
        /\ InsideFrame(outBox, argRegion.width, argRegion.height)
        /\ WellFormed(bbox) /\ InsideRegion(bbox, argRegion) =>
            /\ BoxWidth(outBox) = BoxWidth(bbox)
            /\ BoxHeight(outBox) = BoxHeight(bbox)
        /\ WellFormed(bbox) /\ OutsideRegion(bbox, argRegion) =>
            getBBoxArea(outBox) = Num(0)

\* a box of positive area inside a region that starts away from the image's
\* origin was moved by the region's origin and kept its size
C21_Witness ==
    /\ fn = "cropBBox"
    /\ Lt(Num(0), argRegion.left) /\ Lt(Num(0), argRegion.top)
    /\ InsideRegion(bbox, argRegion)
    /\ Lt(argRegion.left, bbox[1]) /\ Lt(bbox[1], bbox[3])
    /\ Lt(bbox[2], bbox[4])
    /\ outBox[1] = Sub(bbox[1], argRegion.left)
    /\ outBox[2] = Sub(bbox[2], argRegion.top)
    /\ BoxWidth(outBox) = BoxWidth(bbox)
    /\ Lt(Num(0), getBBoxArea(outBox))

---------------------------------------------------------------------------
(* C22 *)

\* C22: for a non-empty list of faces, extractBiggestFace returns an element
\* of the list whose area (x2-x1)*(y2-y1) is greater than or equal to the
\* area of every face of the list.
C22_BiggestFaceIsMaximal ==
    fn = "extractBiggestFace" /\ argFaces # <<>> =>
        /\ ~threw
        /\ \E i \in 1..Len(argFaces) : argFaces[i] = outFace
        /\ \A i \in 1..Len(argFaces) :
            Le(getBBoxArea(argFaces[i].bbox), getBBoxArea(outFace.bbox))

\* the biggest face stood first in the list, before a smaller one, and was
\* returned
C22_Witness ==
    /\ fn = "extractBiggestFace"
    /\ Len(argFaces) = 2
    /\ outFace = argFaces[1]
    /\ Lt(Num(0), getBBoxArea(argFaces[2].bbox))
    /\ Lt(getBBoxArea(argFaces[2].bbox), getBBoxArea(outFace.bbox))

---------------------------------------------------------------------------
(* C23 *)

\* C23: once the effects of a render have run, cachedItems holds
\* exactly one entry for every key that appeared in any items array since
\* mount, the entry of a key is the one of the most recent items array
\* holding that key, and when a compareFn is supplied the list is sorted by
\* it.
C23_CacheSortedByCurrentCompareFn ==
    hookPhase = "idle" =>
        /\ OneLatestEntryPerKey(cachedItems)
        /\ compareFn # "none" => IsSortedBy(cachedItems, compareFn)

---------------------------------------------------------------------------
(* C24 *)

\* C24: over an unchanging table (neither addCreation nor deleteCreations
\* is called during the loop), calling run() from cursor null on, each
\* time with the nextCursor returned before, ends with nextCursor null;
\* every page holds at most pageSize creations; the pages returned so far,
\* put end to end, hold creations of the user only, each once, in createdAt
\* descending order; the nextCursor is the id of a creation of the user that
\* no page returned so far holds (it was removed from its page and opens
\* the next); and at the end the pages hold every creation of the user.
C24_PagingReturnsEveryCreationOnce ==
    /\ [](pagerPhase # "new" /\ tableWrites = 0 =>
            LET got == Concat(pages)
            IN  /\ \A i \in 1..Len(pages) : Len(pages[i]) <= argPageSize
                /\ \A i \in 1..Len(got) : got[i] \in OwnCreations
                /\ NoRepeat(got)
                /\ NewestFirst(got)
                /\ argCursor # 0 =>
                       /\ \E r \in OwnCreations : r.id = argCursor
                       /\ \A i \in 1..Len(got) : got[i].id # argCursor
                /\ pagerPhase = "done" =>
                       /\ argCursor = 0
                       /\ {got[i] : i \in 1..Len(got)} = OwnCreations)
    /\ <>(pagerPhase = "done" \/ tableWrites # 0)

---------------------------------------------------------------------------
(* C25 *)

\* C25: for every region of interest inside the image that is no wider than
\* cropWidth and no higher than cropHeight, the crop window of
\* getResponsiveCropRegion before rounding contains the whole region of
\* interest.
C25_ResponsiveWindowKeepsRegionOfInterest ==
    fn = "getResponsiveCropRegion"
        /\ InsideFrame(bbox, imageWidth, imageHeight) /\ WellFormed(bbox)
        /\ Le(BoxWidth(bbox),
              getMaxCropSize(imageWidth, imageHeight, whAspectRatio)[1])
        /\ Le(BoxHeight(bbox),
              getMaxCropSize(imageWidth, imageHeight, whAspectRatio)[2]) =>
        Contains(outBox, bbox)

---------------------------------------------------------------------------
(* C26 *)

\* C26: for every region of interest inside the image that is no wider than
\* cropWidth and no higher than cropHeight, the crop window of
\* getRelativeCropRegion with zoom = 1, before rounding, contains the whole
\* region of interest.
C26_RelativeWindowKeepsRegionOfInterest ==
    fn = "getRelativeCropRegion" /\ zoom = Num(1)
        /\ InsideFrame(bbox, imageWidth, imageHeight) /\ WellFormed(bbox)
        /\ Le(BoxWidth(bbox),
              getMaxCropSize(imageWidth, imageHeight, whAspectRatio)[1])
        /\ Le(BoxHeight(bbox),
              getMaxCropSize(imageWidth, imageHeight, whAspectRatio)[2]) =>
        Contains(BBox(outWindow.left, outWindow.top,
                      Add(outWindow.left, outWindow.width),
                      Add(outWindow.top, outWindow.height)), bbox)

---------------------------------------------------------------------------
(* C27 *)

\* C27: in every interleaving of scroll events and fetch completions, at
\* most one /api/creations fetch is outstanding, every fetch is submitted
\* with the cursor returned by the previous completed fetch (initNextCursor
\* for the first), no fetch is submitted with a null cursor, and no page is
\* requested or appended twice.
C27_OneFetchAtATimeInCursorOrder ==
    /\ Cardinality(inFlight) <= 1
    /\ \A i \in 1..Len(submitted) :
        /\ submitted[i] # 0
        /\ i = 1 => submitted[i] = initNextCursor
        /\ i > 1 => /\ Len(delivered) >= i - 1
                    /\ submitted[i] = delivered[i - 1].nextCursor
    /\ NoRepeat(submitted)
    /\ NoRepeat(scrollCreations)

\* two pages were fetched one after the other and appended in order, and a
\* third fetch is outstanding with the cursor the second one returned
C27_Witness ==
    /\ scrollCreations = <<1, 2>>
    /\ submitted = <<1, 2, 3>>
    /\ Cardinality(inFlight) = 1
    /\ isFetchingRef
    /\ nextCursorRef = 3

---------------------------------------------------------------------------
(* C28 *)

\* C28: whenever a submitted fetch has finished, with new data, with no
\* data or by failing, isFetchingRef is eventually cleared (so that a later
\* scroll near the bottom with a non-null cursor submits a new fetch).
C28_FlagClearedAfterEveryFetch ==
    (scrollPhase = "mounted" /\ inFlight = {}) ~> ~isFetchingRef

---------------------------------------------------------------------------
(* C29 *)

\* C29: once all concurrent getOrUploadPictureToS3 calls on pictures of one
\* md5 hash have finished, there is exactly one PictureMetadata record of
\* the hash and no file in the bucket but the record's, which is there
\* when nothing but these calls has touched the bucket
\* (deleteFilesFromBucket was not called); a call that threw uploaded a
\* file and deleted it, and a call that found a record uploaded nothing.
C29_OneRecordAndOneFileAfterAllCalls ==
    /\ \A c \in Calls : uploadPc[c] = "findJob" => c \notin uploadedBy
    /\ UploadsFinished =>
        /\ Cardinality(pictureMetadata) = 1
        /\ bucketFiles \subseteq {m.fileName : m \in pictureMetadata}
        /\ bucketDeletes = 0 =>
               bucketFiles = {m.fileName : m \in pictureMetadata}
        /\ \A c \in Calls :
            /\ uploadPc[c] = "threw" =>
                   c \in uploadedBy /\ c \notin bucketFiles
            /\ (uploadPc[c] = "returned" /\ uploadMeta[c].fileName # c) =>
                   c \notin uploadedBy

\* all calls have finished: one created the record, one failed to create
\* it and threw, one found the record
C29_Witness ==
    /\ UploadsFinished
    /\ bucketDeletes = 0
    /\ \E c \in Calls : uploadPc[c] = "threw"
    /\ \E c \in Calls : uploadPc[c] = "returned" /\ uploadMeta[c].fileName = c
    /\ \E c \in Calls :
        uploadPc[c] = "returned" /\ uploadMeta[c].fileName \notin {0, c}

---------------------------------------------------------------------------
(* C30 *)

\* C30: in every interleaving of concurrent getOrCreateCustomer calls for
\* one existing user (the user's record is in the database and deleteUser
\* is not called), at most one non-deleted Stripe customer carries the
\* userId, and once all calls have finished the user's stored customerId is
\* the id of the customer that every call returned.
C30_OneCustomerPerUser ==
    userExists /\ deletePc = "idle" =>
        /\ Cardinality({k \in stripeCustomers :
                            ~k.deleted /\ k.userId = "u"}) <= 1
        /\ CustomerCallsFinished =>
            \A c \in Calls :
                customerPc[c] = "returned" => customerOut[c] = userCustomerId

===========================================================================
